---- MODULE Spec2Model ----
(***************************************************************************)
(* A model of the quick-xml pull reader: the tag-state machine of          *)
(* Reader::read_event_impl, the two XmlSource implementations (the         *)
(* buffered one over a BufRead that delivers its data in fill_buf chunks,  *)
(* and the borrowed one over a byte slice), the scan automata              *)
(* BangType::parse and ReadElementState::change, and the Parser engine     *)
(* (read_bang, read_end, read_question_mark, read_start,                   *)
(* close_expanded_empty) with its open-element stack.                      *)
(*                                                                         *)
(* A byte is a one-character string; a byte slice is a sequence of bytes.  *)
(* Rust indices are 0-based, the sequences here are 1-based: where the     *)
(* code's memchr yields index i, the operators here yield j = i + 1, so    *)
(* `&chunk[..i]` is SubSeq(chunk, 1, j - 1) and `i + 1` is j.              *)
(***************************************************************************)
EXTENDS Integers, Sequences, FiniteSets, TLC

VARIABLES
    input,   \* the bytes of the document the reader was built over
    cfg,     \* the parser options fixed at construction (ParserBuilder)
    r,       \* the reader: its source cursor and its parser's fields
    ev,      \* the result of the last read of r (an event or an error)
    prev,    \* the reader r as it was before its last read
    pev,     \* the result of the read of r before the last one
    prev2,   \* the reader r as it was before that read (in SpecEquiv: the
             \* reader r2 as it was before its last read)
    r2,      \* a second reader over the same input (equivalence checks)
    ev2,     \* the result of the last read of r2
    scan     \* the outcome of the last direct call of a source scan

vars == <<input, cfg, r, ev, prev, pev, prev2, r2, ev2, scan>>

----------------------------------------------------------------------------
(* Bounds of the model                                                     *)

\* the documents read are the concatenations of at most MaxTokens tokens
MaxTokens == 2

\* a directly scanned construct has at most MaxScanLen bytes after the
\* bytes that tell its kind (`!-`, `![`, `!D`, or the first byte of a name)
MaxScanLen == 4

MaxNest == 3

\* the most Err(Interrupted) answers a stream gives
MaxIntr == 2

\* the most pieces after the `<?` of a document of SpecPi
MaxPi == 3

----------------------------------------------------------------------------
(* Generic helpers on byte sequences                                       *)

Min(S) == CHOOSE x \in S : \A y \in S : x <= y

Max(S) == CHOOSE x \in S : \A y \in S : x >= y

Prefix(s, n) == SubSeq(s, 1, n)

Suffix(s, n) == SubSeq(s, n + 1, Len(s))

StartsWith(s, p) == Len(s) >= Len(p) /\ SubSeq(s, 1, Len(p)) = p

EndsWith(s, p) == Len(s) >= Len(p) /\ SubSeq(s, Len(s) - Len(p) + 1, Len(s)) = p

\* memchr::memchr: 1-based index of the first occurrence of byte, 0 if none
Memchr(byte, s) ==
    IF \E j \in 1..Len(s) : s[j] = byte
    THEN Min({j \in 1..Len(s) : s[j] = byte})
    ELSE 0

ToUpper(b) ==
    CASE b = "c" -> "C" [] b = "d" -> "D" [] b = "a" -> "A" [] b = "t" -> "T"
      [] b = "o" -> "O" [] b = "y" -> "Y" [] b = "p" -> "P" [] b = "e" -> "E"
      [] OTHER -> b

\* the closure uncased_starts_with of read_bang
uncased_starts_with(string, prefix) ==
    /\ Len(string) >= Len(prefix)
    /\ \A j \in 1..Len(prefix) : ToUpper(string[j]) = ToUpper(prefix[j])

----------------------------------------------------------------------------
(* reader.rs: is_whitespace, BangType, ReadElementState                    *)

is_whitespace(b) == b \in {" ", "\r", "\n", "\t"}

\* `iter().position(|b| !is_whitespace(*b)).unwrap_or(len)`: the number of
\* leading whitespace bytes of s
LeadingWhitespace(s) ==
    IF \E j \in 1..Len(s) : ~is_whitespace(s[j])
    THEN Min({j \in 1..Len(s) : ~is_whitespace(s[j])}) - 1
    ELSE Len(s)

\* `iter().position(|&b| is_whitespace(b)).unwrap_or(len)`: the number of
\* bytes of s before its first whitespace byte
NameEnd(s) ==
    IF \E j \in 1..Len(s) : is_whitespace(s[j])
    THEN Min({j \in 1..Len(s) : is_whitespace(s[j])}) - 1
    ELSE Len(s)

\* u8::is_ascii_whitespace (used by read_end): also accepts form feed
is_ascii_whitespace(b) == b \in {" ", "\r", "\n", "\t", "\f"}

\* a BangType::new that reports the end of input as an unexpected byte
BangTypeNewEofAsBang(byte) ==
    CASE byte = "[" -> [ok |-> TRUE, bt |-> "CData", err |-> ""]
      [] byte = "-" -> [ok |-> TRUE, bt |-> "Comment", err |-> ""]
      [] byte \in {"D", "d"} -> [ok |-> TRUE, bt |-> "DocType", err |-> ""]
      [] OTHER -> [ok |-> FALSE, bt |-> "", err |-> "UnexpectedBang"]

\* BangType::new; byte is "" for None (end of input)
BangTypeNew(byte) ==
    CASE byte = "[" -> [ok |-> TRUE, bt |-> "CData", err |-> ""]
      [] byte = "-" -> [ok |-> TRUE, bt |-> "Comment", err |-> ""]
      [] byte \in {"D", "d"} -> [ok |-> TRUE, bt |-> "DocType", err |-> ""]
      [] byte = "" -> [ok |-> FALSE, bt |-> "", err |-> "UnexpectedEof(Bang)"]
      [] OTHER -> [ok |-> FALSE, bt |-> "", err |-> "UnexpectedBang"]

\* BangType::to_err
BangToErr(bt) ==
    CASE bt = "CData" -> "UnexpectedEof(CData)"
      [] bt = "Comment" -> "UnexpectedEof(Comment)"
      [] OTHER -> "UnexpectedEof(DOCTYPE)"

\* the sum over memchr2_iter('<', '>') of the DocType arm
RECURSIVE Balance(_)
Balance(content) ==
    IF content = <<>> THEN 0
    ELSE (CASE Head(content) = "<" -> 1
            [] Head(content) = ">" -> -1
            [] OTHER -> 0) + Balance(Tail(content))

\* the test made by BangType::parse at the `>` with 1-based index j
ParseAccepts(bt, chunk, offset, j) ==
    CASE bt = "Comment" ->
            (offset + (j - 1) > 4) /\ EndsWith(Prefix(chunk, j - 1), <<"-", "-">>)
      [] bt = "CData" -> EndsWith(Prefix(chunk, j - 1), <<"]", "]">>)
      [] OTHER -> Balance(Prefix(chunk, j - 1)) = 0

\* BangType::parse: found = FALSE stands for None
Parse(bt, chunk, offset) ==
    LET hits == {j \in 1..Len(chunk) :
                    chunk[j] = ">" /\ ParseAccepts(bt, chunk, offset, j)}
    IN  IF hits = {} THEN [found |-> FALSE, bytes |-> <<>>, used |-> 0]
        ELSE LET j == Min(hits)
             IN  [found |-> TRUE,
                  bytes |-> IF bt = "CData" THEN Prefix(chunk, j - 3)
                            ELSE Prefix(chunk, j - 1),
                  used |-> j]

\* a step that forgets the quotes: every `>` ends the element
ChangeStepNoQuotes(state, b) == "Elem"

\* one step of the match in ReadElementState::change, for a byte that is
\* not the `>` that ends the element
ChangeStep(state, b) ==
    CASE state = "Elem" /\ b = "'" -> "SingleQ"
      [] state = "Elem" /\ b = "\"" -> "DoubleQ"
      [] state = "SingleQ" /\ b = "'" -> "Elem"
      [] state = "DoubleQ" /\ b = "\"" -> "Elem"
      [] OTHER -> state

\* ReadElementState::change, scanning chunk from the 1-based index j on
RECURSIVE ChangeFrom(_, _, _)
ChangeFrom(state, chunk, j) ==
    IF j > Len(chunk)
    THEN [found |-> FALSE, bytes |-> <<>>, used |-> 0, state |-> state]
    ELSE IF state = "Elem" /\ chunk[j] = ">"
         THEN [found |-> TRUE, bytes |-> Prefix(chunk, j - 1), used |-> j,
               state |-> state]
         ELSE ChangeFrom(ChangeStep(state, chunk[j]), chunk, j + 1)

Change(state, chunk) == ChangeFrom(state, chunk, 1)

----------------------------------------------------------------------------
(* The input sources.  A reader record holds the source and the parser:    *)
(*   kind           "borrowed" (&[u8]), "buffered" (a BufRead) or "async"  *)
(*                  (an AsyncBufRead: read_event_impl_async runs the       *)
(*                  source methods of azync.rs; the other operations are   *)
(*                  modelled once, on the BufRead methods that azync.rs    *)
(*                  repeats, and SpecAsync compares the two)               *)
(*   cuts           the offsets at which the BufRead's data is split into  *)
(*                  fill_buf chunks (unused by the borrowed source)        *)
(*   cursor         the number of input bytes consumed from the source     *)
(*   buf_position, tag_state, opened_buffer, opened_starts, encoding       *)
(*                  the fields of DefaultParser                            *)
(*   text           TRUE when the reader was built over a &str             *)
(*   intr, broken   the fill_buf calls the stream answers with an error:   *)
(*                  see Answer                                             *)
(* A source operation returns [r |-> the reader after it, tag |-> "Some",  *)
(* "None" or "Err", bytes, bt (the BangType), err].                        *)

Out(rd, tag, bytes, bt, err) ==
    [r |-> rd, tag |-> tag, bytes |-> bytes, bt |-> bt, err |-> err]

\* the end of the fill_buf chunk that holds the byte after the cursor
ChunkEnd(rd) ==
    Min({k \in rd.cuts : k > rd.cursor} \cup {Len(input)})

\* BufRead::fill_buf: the unconsumed rest of the current chunk, the next
\* chunk when that is empty, the empty slice at the end of the input
FillBuf(rd) ==
    IF rd.cursor >= Len(input) THEN <<>>
    ELSE SubSeq(input, rd.cursor + 1, ChunkEnd(rd))

\* what the stream answers to the fill_buf made at the cursor:
\* Err(Interrupted) as often as the cursor occurs in rd.intr, then
\* another I/O error when the cursor is rd.broken, the bytes otherwise
Answer(rd) ==
    IF \E k \in DOMAIN rd.intr : rd.intr[k] = rd.cursor THEN "Interrupted"
    ELSE IF rd.broken = rd.cursor THEN "Err"
    ELSE "Ok"

\* the stream after it answered Err(Interrupted): one answer is used up
Retry(rd) ==
    LET k == CHOOSE k \in DOMAIN rd.intr : rd.intr[k] = rd.cursor
    IN  [rd EXCEPT !.intr = SubSeq(@, 1, k - 1) \o SubSeq(@, k + 1, Len(@))]

\* BufRead::consume, and the re-slicing `*self = &self[n..]`
Consume(rd, n) == [rd EXCEPT !.cursor = @ + n]

AddPosition(rd, n) == [rd EXCEPT !.buf_position = @ + n]

\* the slice `self` of the borrowed source
Slice(rd) == SubSeq(input, rd.cursor + 1, Len(input))

\* the loop of <R: BufRead as XmlSource>::peek_one
RECURSIVE BufPeekOneLoop(_)
BufPeekOneLoop(rd) ==
    LET n == FillBuf(rd)
    IN  IF Answer(rd) = "Interrupted" THEN BufPeekOneLoop(Retry(rd))
        ELSE IF Answer(rd) = "Err" THEN Out(rd, "Err", <<>>, "", "Io")
        ELSE IF n = <<>> THEN Out(rd, "None", <<>>, "", "")
        ELSE Out(rd, "Some", <<n[1]>>, "", "")

\* the byte peek_one returns to the parser, which is modelled for streams
\* that do not fail; "" stands for None
BufPeekOne(rd) ==
    LET o == BufPeekOneLoop(rd) IN IF o.tag = "Some" THEN o.bytes[1] ELSE ""

\* <R: AsyncBufRead as AsyncXmlSource>::peek_one
RECURSIVE AsyncPeekOneLoop(_)
AsyncPeekOneLoop(rd) ==
    LET n == FillBuf(rd)
    IN  IF Answer(rd) = "Interrupted" THEN AsyncPeekOneLoop(Retry(rd))
        ELSE IF Answer(rd) = "Err" THEN Out(rd, "Err", <<>>, "", "Io")
        ELSE IF n = <<>> THEN Out(rd, "None", <<>>, "", "")
        ELSE Out(rd, "Some", <<n[1]>>, "", "")

\* <&[u8] as XmlSource>::peek_one
SlicePeekOne(rd) ==
    LET s == Slice(rd) IN IF s = <<>> THEN "" ELSE s[1]

\* the byte the async peek_one returns to the parser
AsyncPeekOne(rd) ==
    LET o == AsyncPeekOneLoop(rd) IN IF o.tag = "Some" THEN o.bytes[1] ELSE ""

PeekOne(rd) ==
    IF rd.kind = "borrowed" THEN SlicePeekOne(rd)
    ELSE BufPeekOne(rd)

\* <R: BufRead as XmlSource>::read_bytes_until, the state of its loop
\* being (acc = buf[start..], read)
RECURSIVE BufReadBytesUntilLoop(_, _, _, _)
BufReadBytesUntilLoop(rd, byte, acc, read) ==
    LET available == FillBuf(rd)
        j == Memchr(byte, available)
    IN  IF Answer(rd) = "Interrupted"
        THEN BufReadBytesUntilLoop(Retry(rd), byte, acc, read)
        ELSE IF Answer(rd) = "Err"
        THEN Out(AddPosition(rd, read), "Err", <<>>, "", "Io")
        ELSE IF available = <<>>
        THEN IF read = 0
             THEN Out(AddPosition(rd, read), "None", <<>>, "", "")
             ELSE Out(AddPosition(rd, read), "Some", acc, "", "")
        ELSE IF j > 0
             THEN Out(AddPosition(Consume(rd, j), read + j), "Some",
                      acc \o Prefix(available, j - 1), "", "")
             ELSE BufReadBytesUntilLoop(Consume(rd, Len(available)), byte,
                                        acc \o available, read + Len(available))

BufReadBytesUntil(rd, byte) == BufReadBytesUntilLoop(rd, byte, <<>>, 0)

\* <R: AsyncBufRead as AsyncXmlSource>::read_bytes_until
RECURSIVE AsyncReadBytesUntilLoop(_, _, _, _)
AsyncReadBytesUntilLoop(rd, byte, acc, read) ==
    LET available == FillBuf(rd)
        j == Memchr(byte, available)
    IN  IF Answer(rd) = "Interrupted"
        THEN AsyncReadBytesUntilLoop(Retry(rd), byte, acc, read)
        ELSE IF Answer(rd) = "Err"
        THEN Out(AddPosition(rd, read), "Err", <<>>, "", "Io")
        ELSE IF available = <<>>
        THEN IF read = 0
             THEN Out(AddPosition(rd, read), "None", <<>>, "", "")
             ELSE Out(AddPosition(rd, read), "Some", acc, "", "")
        ELSE IF j > 0
             THEN Out(AddPosition(Consume(rd, j), read + j), "Some",
                      acc \o Prefix(available, j - 1), "", "")
             ELSE AsyncReadBytesUntilLoop(Consume(rd, Len(available)), byte,
                                        acc \o available, read + Len(available))

AsyncReadBytesUntil(rd, byte) == AsyncReadBytesUntilLoop(rd, byte, <<>>, 0)

\* <&[u8] as XmlSource>::read_bytes_until
SliceReadBytesUntil(rd, byte) ==
    LET s == Slice(rd)
        j == Memchr(byte, s)
    IN  IF s = <<>> THEN Out(rd, "None", <<>>, "", "")
        ELSE IF j > 0
             THEN Out(AddPosition(Consume(rd, j), j), "Some", Prefix(s, j - 1), "", "")
             ELSE Out(AddPosition(Consume(rd, Len(s)), Len(s)), "Some", s, "", "")

\* a read_bytes_until that finds nothing when the input ends before the byte
ReadBytesUntilStrict(rd, byte) ==
    LET out == IF rd.kind = "borrowed" THEN SliceReadBytesUntil(rd, byte)
               ELSE BufReadBytesUntil(rd, byte)
    IN  IF out.tag = "Some" /\ input[out.r.cursor] # byte
        THEN Out(out.r, "None", <<>>, "", "")
        ELSE out

ReadBytesUntil(rd, byte) ==
    IF rd.kind = "borrowed" THEN SliceReadBytesUntil(rd, byte)
    ELSE BufReadBytesUntil(rd, byte)

\* the loop of <R: BufRead as XmlSource>::read_bang_element
RECURSIVE BufReadBangLoop(_, _, _, _)
BufReadBangLoop(rd, bt, acc, read) ==
    LET available == FillBuf(rd)
        p == Parse(bt, available, read)
    IN  IF Answer(rd) = "Interrupted"
        THEN BufReadBangLoop(Retry(rd), bt, acc, read)
        ELSE IF Answer(rd) = "Err"
        THEN Out(AddPosition(rd, read), "Err", <<>>, bt, "Io")
        ELSE IF available = <<>>
        THEN Out(rd, "Err", <<>>, bt, BangToErr(bt))
        ELSE IF p.found
             THEN Out(AddPosition(Consume(rd, p.used), read + p.used), "Some",
                      acc \o p.bytes, bt, "")
             ELSE BufReadBangLoop(Consume(rd, Len(available)), bt,
                                  acc \o available, read + Len(available))

\* <R: BufRead as XmlSource>::read_bang_element: the `!` is pushed and
\* consumed, the next byte is peeked to classify the construct
BufReadBangElement(rd) ==
    LET peek == BufPeekOneLoop(Consume(rd, 1))
        r1 == peek.r
        new == BangTypeNew(IF peek.tag = "Some" THEN peek.bytes[1] ELSE "")
    IN  IF peek.tag = "Err" THEN peek
        ELSE IF ~new.ok THEN Out(r1, "Err", <<>>, "", new.err)
        ELSE BufReadBangLoop(r1, new.bt, <<"!">>, 1)

\* <R: AsyncBufRead as AsyncXmlSource>::read_bang_element
RECURSIVE AsyncReadBangLoop(_, _, _, _)
AsyncReadBangLoop(rd, bt, acc, read) ==
    LET available == FillBuf(rd)
        p == Parse(bt, available, read)
    IN  IF Answer(rd) = "Interrupted"
        THEN AsyncReadBangLoop(Retry(rd), bt, acc, read)
        ELSE IF Answer(rd) = "Err"
        THEN Out(AddPosition(rd, read), "Err", <<>>, bt, "Io")
        ELSE IF available = <<>>
        THEN Out(rd, "Err", <<>>, bt, BangToErr(bt))
        ELSE IF p.found
             THEN Out(AddPosition(Consume(rd, p.used), read + p.used), "Some",
                      acc \o p.bytes, bt, "")
             ELSE AsyncReadBangLoop(Consume(rd, Len(available)), bt,
                                  acc \o available, read + Len(available))

AsyncReadBangElement(rd) ==
    LET peek == AsyncPeekOneLoop(Consume(rd, 1))
        r1 == peek.r
        new == BangTypeNew(IF peek.tag = "Some" THEN peek.bytes[1] ELSE "")
    IN  IF peek.tag = "Err" THEN peek
        ELSE IF ~new.ok THEN Out(r1, "Err", <<>>, "", new.err)
        ELSE AsyncReadBangLoop(r1, new.bt, <<"!">>, 1)

\* <&[u8] as XmlSource>::read_bang_element
SliceReadBangElement(rd) ==
    LET s == Slice(rd)
        new == BangTypeNew(IF Len(s) > 1 THEN s[2] ELSE "")
        p == Parse(new.bt, s, 0)
    IN  IF ~new.ok THEN Out(rd, "Err", <<>>, "", new.err)
        ELSE IF p.found
             THEN Out(AddPosition(Consume(rd, p.used), p.used), "Some",
                      p.bytes, new.bt, "")
             ELSE Out(rd, "Err", <<>>, new.bt, BangToErr(new.bt))

ReadBangElement(rd) ==
    IF rd.kind = "borrowed" THEN SliceReadBangElement(rd)
    ELSE BufReadBangElement(rd)

\* a read_element loop that does not carry the quote state from one chunk
\* to the next: every chunk is scanned from the state Elem
RECURSIVE BufReadElementLoopStateless(_, _, _, _)
BufReadElementLoopStateless(rd, state, acc, read) ==
    LET available == FillBuf(rd)
        c == Change("Elem", available)
    IN  IF Answer(rd) = "Interrupted"
        THEN BufReadElementLoopStateless(Retry(rd), state, acc, read)
        ELSE IF Answer(rd) = "Err"
        THEN Out(AddPosition(rd, read), "Err", <<>>, "", "Io")
        ELSE IF available = <<>>
        THEN IF read = 0 THEN Out(rd, "None", <<>>, "", "")
             ELSE Out(rd, "Some", acc, "", "")
        ELSE IF c.found
             THEN Out(AddPosition(Consume(rd, c.used), read + c.used), "Some",
                      acc \o c.bytes, "", "")
             ELSE BufReadElementLoopStateless(Consume(rd, Len(available)), c.state,
                                              acc \o available, read + Len(available))

\* a read_element loop that starts over after Err(Interrupted): the bytes
\* accumulated so far are dropped
RECURSIVE BufReadElementLoopRestart(_, _, _, _)
BufReadElementLoopRestart(rd, state, acc, read) ==
    LET available == FillBuf(rd)
        c == Change(state, available)
    IN  IF Answer(rd) = "Interrupted"
        THEN BufReadElementLoopRestart(Retry(rd), "Elem", <<>>, 0)
        ELSE IF Answer(rd) = "Err"
        THEN Out(AddPosition(rd, read), "Err", <<>>, "", "Io")
        ELSE IF available = <<>>
        THEN IF read = 0 THEN Out(rd, "None", <<>>, "", "")
             ELSE Out(rd, "Some", acc, "", "")
        ELSE IF c.found
             THEN Out(AddPosition(Consume(rd, c.used), read + c.used), "Some",
                      acc \o c.bytes, "", "")
             ELSE BufReadElementLoopRestart(Consume(rd, Len(available)), c.state,
                                            acc \o available, read + Len(available))

\* the loop of <R: BufRead as XmlSource>::read_element; on a hit the
\* position is advanced, at the end of the input it is not
RECURSIVE BufReadElementLoop(_, _, _, _)
BufReadElementLoop(rd, state, acc, read) ==
    LET available == FillBuf(rd)
        c == Change(state, available)
    IN  IF Answer(rd) = "Interrupted"
        THEN BufReadElementLoop(Retry(rd), state, acc, read)
        ELSE IF Answer(rd) = "Err"
        THEN Out(AddPosition(rd, read), "Err", <<>>, "", "Io")
        ELSE IF available = <<>>
        THEN IF read = 0 THEN Out(rd, "None", <<>>, "", "")
             ELSE Out(rd, "Some", acc, "", "")
        ELSE IF c.found
             THEN Out(AddPosition(Consume(rd, c.used), read + c.used), "Some",
                      acc \o c.bytes, "", "")
             ELSE BufReadElementLoop(Consume(rd, Len(available)), c.state,
                                     acc \o available, read + Len(available))

BufReadElement(rd) == BufReadElementLoop(rd, "Elem", <<>>, 0)

\* <R: AsyncBufRead as AsyncXmlSource>::read_element
RECURSIVE AsyncReadElementLoop(_, _, _, _)
AsyncReadElementLoop(rd, state, acc, read) ==
    LET available == FillBuf(rd)
        c == Change(state, available)
    IN  IF Answer(rd) = "Interrupted"
        THEN AsyncReadElementLoop(Retry(rd), state, acc, read)
        ELSE IF Answer(rd) = "Err"
        THEN Out(AddPosition(rd, read), "Err", <<>>, "", "Io")
        ELSE IF available = <<>>
        THEN IF read = 0 THEN Out(rd, "None", <<>>, "", "")
             ELSE Out(rd, "Some", acc, "", "")
        ELSE IF c.found
             THEN Out(AddPosition(Consume(rd, c.used), read + c.used), "Some",
                      acc \o c.bytes, "", "")
             ELSE AsyncReadElementLoop(Consume(rd, Len(available)), c.state,
                                     acc \o available, read + Len(available))

AsyncReadElement(rd) == AsyncReadElementLoop(rd, "Elem", <<>>, 0)

\* <&[u8] as XmlSource>::read_element
SliceReadElement(rd) ==
    LET s == Slice(rd)
        c == Change("Elem", s)
    IN  IF s = <<>> THEN Out(rd, "None", <<>>, "", "")
        ELSE IF c.found
             THEN Out(AddPosition(Consume(rd, c.used), c.used), "Some", c.bytes, "", "")
             ELSE Out(rd, "Err", <<>>, "", "UnexpectedEof(Element)")

ReadElement(rd) ==
    IF rd.kind = "borrowed" THEN SliceReadElement(rd)
    ELSE BufReadElement(rd)

\* a skip_whitespace without its loop: it stops at the end of the chunk
BufSkipWhitespaceOneChunk(rd) ==
    LET count == LeadingWhitespace(FillBuf(rd))
    IN  IF count > 0 THEN AddPosition(Consume(rd, count), count) ELSE rd

\* the loop of <R: BufRead as XmlSource>::skip_whitespace
RECURSIVE BufSkipWhitespaceLoop(_)
BufSkipWhitespaceLoop(rd) ==
    LET count == LeadingWhitespace(FillBuf(rd))
    IN  IF Answer(rd) = "Interrupted" THEN BufSkipWhitespaceLoop(Retry(rd))
        ELSE IF Answer(rd) = "Err" THEN Out(rd, "Err", <<>>, "", "Io")
        ELSE IF count > 0
        THEN BufSkipWhitespaceLoop(AddPosition(Consume(rd, count), count))
        ELSE Out(rd, "Unit", <<>>, "", "")

\* the source skip_whitespace leaves to the parser, which is modelled for
\* streams that do not fail
BufSkipWhitespace(rd) == BufSkipWhitespaceLoop(rd).r

\* <R: AsyncBufRead as AsyncXmlSource>::skip_whitespace
RECURSIVE AsyncSkipWhitespaceLoop(_)
AsyncSkipWhitespaceLoop(rd) ==
    LET count == LeadingWhitespace(FillBuf(rd))
    IN  IF Answer(rd) = "Interrupted" THEN AsyncSkipWhitespaceLoop(Retry(rd))
        ELSE IF Answer(rd) = "Err" THEN Out(rd, "Err", <<>>, "", "Io")
        ELSE IF count > 0
        THEN AsyncSkipWhitespaceLoop(AddPosition(Consume(rd, count), count))
        ELSE Out(rd, "Unit", <<>>, "", "")

\* <&[u8] as XmlSource>::skip_whitespace
SliceSkipWhitespace(rd) ==
    LET whitespaces == LeadingWhitespace(Slice(rd))
    IN  AddPosition(Consume(rd, whitespaces), whitespaces)

\* the source the async skip_whitespace leaves to the parser
AsyncSkipWhitespace(rd) == AsyncSkipWhitespaceLoop(rd).r

SkipWhitespace(rd) ==
    IF rd.kind = "borrowed" THEN SliceSkipWhitespace(rd)
    ELSE BufSkipWhitespace(rd)

\* skip_one of the sources: [r, hit]
SkipOne(rd, byte) ==
    IF PeekOne(rd) = byte
    THEN [r |-> AddPosition(Consume(rd, 1), 1), hit |-> TRUE]
    ELSE [r |-> rd, hit |-> FALSE]

\* <R: AsyncBufRead as AsyncXmlSource>::skip_one
AsyncSkipOne(rd, byte) ==
    IF AsyncPeekOne(rd) = byte
    THEN [r |-> AddPosition(Consume(rd, 1), 1), hit |-> TRUE]
    ELSE [r |-> rd, hit |-> FALSE]

----------------------------------------------------------------------------
(* Events and errors.  Every result of a read has the same shape:          *)
(*   kind      "StartText", "Text", "Start", "Empty", "End", "Comment",    *)
(*             "CData", "DocType", "Decl", "PI", "Eof", "Err", or "none"   *)
(*             before the first read                                       *)
(*   content   the bytes the event carries; name_len: BytesStart's         *)
(*   err, expected, found   the error and the names of EndEventMismatch    *)

Event(kind, content, name_len) ==
    [kind |-> kind, content |-> content, name_len |-> name_len,
     err |-> "", expected |-> <<>>, found |-> <<>>]

Error(err, expected, found) ==
    [kind |-> "Err", content |-> <<>>, name_len |-> 0,
     err |-> err, expected |-> expected, found |-> found]

Eof == Event("Eof", <<>>, 0)

NoEvent == Event("none", <<>>, 0)

\* what a Parser method returns: the reader after it and the event
Ret(rd, e) == [r |-> rd, ev |-> e]

set_tag_state(rd, s) == [rd EXCEPT !.tag_state = s]

\* a can_be_refined that lets every provenance be refined
can_be_refined_always(encoding) == TRUE

\* EncodingRef::can_be_refined
can_be_refined(encoding) == encoding.prov \in {"Implicit", "BomDetected"}

\* a detect_encoding that recognises no byte-order mark
detect_encoding_none(bytes) == ""

\* detect_encoding; "" stands for None.  The bytes FE, FF, EF, BB, BF and 00
\* are written as two-character strings
detect_encoding(bytes) ==
    CASE StartsWith(bytes, <<"FE", "FF">>) -> "UTF_16BE"
      [] StartsWith(bytes, <<"FF", "FE">>) -> "UTF_16LE"
      [] StartsWith(bytes, <<"EF", "BB", "BF">>) -> "UTF_8"
      [] StartsWith(bytes, <<"00", "<", "00", "?">>) -> "UTF_16BE"
      [] StartsWith(bytes, <<"<", "00", "?", "00">>) -> "UTF_16LE"
      [] StartsWith(bytes, <<"<", "?", "x", "m">>) -> "UTF_8"
      [] OTHER -> ""

\* Encoding::for_label of encoding_rs, for the labels the model uses: the
\* encoding a label names, "" for None
ForLabel(label) ==
    CASE label \in {<<"U", "T", "F", "-", "8">>, <<"u", "t", "f", "-", "8">>} -> "UTF_8"
      [] label \in {<<"U", "T", "F", "-", "1", "6">>, <<"u", "t", "f", "-", "1", "6">>} -> "UTF_16LE"
      [] label = <<"w", "i", "n", "d", "o", "w", "s", "-", "1", "2", "5", "1">> -> "WINDOWS_1251"
      [] OTHER -> ""

\* BytesDecl::encoder of the events module: the encoding named by the value
\* of the declaration's `encoding` attribute, "" for None (no such
\* attribute, or a label that names no encoding)
DeclEncoder(content) ==
    LET key == <<" ", "e", "n", "c", "o", "d", "i", "n", "g", "=">>
        at == {j \in 1..(Len(content) - Len(key) - 1) :
                 /\ SubSeq(content, j, j + Len(key) - 1) = key
                 /\ content[j + Len(key)] \in {"'", "\""}}
    IN  IF at = {} THEN ""
        ELSE LET open == Min(at) + Len(key)
                 close == {k \in (open + 1)..Len(content) : content[k] = content[open]}
             IN  IF close = {} THEN ""
                 ELSE ForLabel(SubSeq(content, open + 1, Min(close) - 1))

----------------------------------------------------------------------------
(* parser.rs: the provided methods of the trait Parser                     *)

\* the positions (0-based, in the comment body buf[3..len-2]) of the dashes
\* that memchr_iter yields
BodyDashes(buf) ==
    {q \in 0..(Len(buf) - 6) : buf[3 + q + 1] = "-"}

\* read_bang looking for the following dash in the comment body only
read_bang_body_only(rd, bang_type, buf) ==
    LET len == Len(buf) IN
    CASE bang_type = "Comment" /\ StartsWith(buf, <<"!", "-", "-">>) ->
            LET dashes == BodyDashes(buf)
                \* the dashes followed by a dash: buf[3 + p + 1] == b'-'
                bad == {q \in dashes : q + 1 <= len - 6 /\ buf[3 + q + 1 + 1] = "-"}
                \* Iterator::position: the rank of the first such dash among
                \* the dashes memchr_iter yields
                p == Cardinality({q \in dashes : q < Min(bad)})
            IN  IF cfg.check_comments /\ bad # {}
                THEN Ret(AddPosition(rd, len - p),
                         Error("UnexpectedToken(--)", <<>>, <<>>))
                ELSE Ret(rd, Event("Comment", SubSeq(buf, 4, len - 2), 0))
      [] bang_type = "CData"
         /\ uncased_starts_with(buf, <<"!", "[", "C", "D", "A", "T", "A", "[">>) ->
            Ret(rd, Event("CData", Suffix(buf, 8), 0))
      [] bang_type = "DocType"
         /\ uncased_starts_with(buf, <<"!", "D", "O", "C", "T", "Y", "P", "E">>) ->
            LET start == LeadingWhitespace(Suffix(buf, 8))
            IN  Ret(rd, Event("DocType", Suffix(buf, 8 + start), 0))
      [] OTHER -> Ret(rd, Error(BangToErr(bang_type), <<>>, <<>>))

\* Parser::read_bang
read_bang(rd, bang_type, buf) ==
    LET len == Len(buf) IN
    CASE bang_type = "Comment" /\ StartsWith(buf, <<"!", "-", "-">>) ->
            LET dashes == BodyDashes(buf)
                \* the dashes followed by a dash: buf[3 + p + 1] == b'-'
                bad == {q \in dashes : buf[3 + q + 1 + 1] = "-"}
                \* Iterator::position: the rank of the first such dash among
                \* the dashes memchr_iter yields
                p == Cardinality({q \in dashes : q < Min(bad)})
            IN  IF cfg.check_comments /\ bad # {}
                THEN Ret(AddPosition(rd, len - p),
                         Error("UnexpectedToken(--)", <<>>, <<>>))
                ELSE Ret(rd, Event("Comment", SubSeq(buf, 4, len - 2), 0))
      [] bang_type = "CData"
         /\ uncased_starts_with(buf, <<"!", "[", "C", "D", "A", "T", "A", "[">>) ->
            Ret(rd, Event("CData", Suffix(buf, 8), 0))
      [] bang_type = "DocType"
         /\ uncased_starts_with(buf, <<"!", "D", "O", "C", "T", "Y", "P", "E">>) ->
            LET start == LeadingWhitespace(Suffix(buf, 8))
            IN  Ret(rd, Event("DocType", Suffix(buf, 8 + start), 0))
      [] OTHER -> Ret(rd, Error(BangToErr(bang_type), <<>>, <<>>))

\* the condition of `debug_assert!(start < len - 8, "DocType must have a
\* name")` in read_bang
DocTypeHasName(buf) == LeadingWhitespace(Suffix(buf, 8)) < Len(buf) - 8

\* the panic of a failed assertion
Panic(message) == Event("Panic", message, 0)

\* Parser::read_bang in a build with debug assertions (debug = TRUE), where
\* a failed debug_assert! panics, and in a build without them
read_bang_build(rd, bang_type, buf, debug) ==
    IF /\ debug
       /\ bang_type = "DocType"
       /\ uncased_starts_with(buf, <<"!", "D", "O", "C", "T", "Y", "P", "E">>)
       /\ ~DocTypeHasName(buf)
    THEN Ret(rd, Panic(<<"DocType must have a name">>))
    ELSE read_bang(rd, bang_type, buf)

\* the name of an end tag taken with its trailing whitespace, whatever
\* trim_markup_names_in_closing_tags says
EndNameUntrimmed(buf) == Suffix(buf, 1)

\* the name of an end tag as read_end takes it from buf = `/name  `
EndName(buf) ==
    LET rest == Suffix(buf, 1)
        keep == {j \in 1..Len(rest) : ~is_ascii_whitespace(rest[j])}
    IN  IF cfg.trim_markup_names_in_closing_tags /\ keep # {}
        THEN Prefix(rest, Max(keep))
        ELSE rest

\* a read_end that compares the names whatever check_end_names says
read_end_always_checked(rd, buf) ==
    LET name == EndName(buf) IN
    IF rd.opened_starts # <<>>
    THEN LET start == rd.opened_starts[Len(rd.opened_starts)]
             popped == [rd EXCEPT !.opened_starts = Prefix(@, Len(@) - 1)]
             expected == Suffix(rd.opened_buffer, start)
         IN  IF name # expected
             THEN Ret(AddPosition(popped, 0 - Len(buf)),
                      Error("EndEventMismatch", expected, name))
             ELSE Ret([popped EXCEPT !.opened_buffer = Prefix(@, start)],
                      Event("End", name, Len(name)))
    ELSE Ret(AddPosition(rd, 0 - Len(buf)),
             Error("EndEventMismatch", <<>>, Suffix(buf, 1)))

\* a read_end that leaves the matched name in opened_buffer
read_end_no_truncate(rd, buf) ==
    LET name == EndName(buf) IN
    IF cfg.check_end_names
    THEN IF rd.opened_starts # <<>>
         THEN LET start == rd.opened_starts[Len(rd.opened_starts)]
                  popped == [rd EXCEPT !.opened_starts = Prefix(@, Len(@) - 1)]
                  expected == Suffix(rd.opened_buffer, start)
              IN  IF name # expected
                  THEN Ret(AddPosition(popped, 0 - Len(buf)),
                           Error("EndEventMismatch", expected, name))
                  ELSE Ret(popped, Event("End", name, Len(name)))
         ELSE Ret(AddPosition(rd, 0 - Len(buf)),
                  Error("EndEventMismatch", <<>>, Suffix(buf, 1)))
    ELSE Ret(rd, Event("End", name, Len(name)))

\* a read_end whose mismatch error takes the `<` and the `>` of the tag from
\* the position as well as the bytes between them, once for each
read_end_rewind(rd, buf) ==
    LET name == EndName(buf) IN
    IF cfg.check_end_names
    THEN IF rd.opened_starts # <<>> /\ name = Suffix(rd.opened_buffer, rd.opened_starts[Len(rd.opened_starts)])
         THEN LET start == rd.opened_starts[Len(rd.opened_starts)]
              IN  Ret([rd EXCEPT !.opened_starts = Prefix(@, Len(@) - 1),
                                 !.opened_buffer = Prefix(@, start)],
                      Event("End", name, Len(name)))
         ELSE Ret(AddPosition([rd EXCEPT !.opened_starts = Prefix(@, Len(@) - 1)],
                              0 - (2 * Len(buf) + 2)),
                  Error("EndEventMismatch", <<>>, Suffix(buf, 1)))
    ELSE Ret(rd, Event("End", name, Len(name)))

\* Parser::read_end
read_end(rd, buf) ==
    LET name == EndName(buf) IN
    IF cfg.check_end_names
    THEN IF rd.opened_starts # <<>>
         THEN LET start == rd.opened_starts[Len(rd.opened_starts)]
                  popped == [rd EXCEPT !.opened_starts = Prefix(@, Len(@) - 1)]
                  expected == Suffix(rd.opened_buffer, start)
              IN  IF name # expected
                  THEN Ret(AddPosition(popped, 0 - Len(buf)),
                           Error("EndEventMismatch", expected, name))
                  ELSE Ret([popped EXCEPT !.opened_buffer = Prefix(@, start)],
                           Event("End", name, Len(name)))
         ELSE Ret(AddPosition(rd, 0 - Len(buf)),
                  Error("EndEventMismatch", <<>>, Suffix(buf, 1)))
    ELSE Ret(rd, Event("End", name, Len(name)))

\* a read_question_mark that takes every content beginning with `xml` for
\* a declaration, whatever follows the three letters
read_question_mark_xml_prefix(rd, buf) ==
    LET len == Len(buf) IN
    IF len > 2 /\ buf[len] = "?"
    THEN IF len > 4 /\ SubSeq(buf, 2, 4) = <<"x", "m", "l">>
         THEN Ret(rd, Event("Decl", SubSeq(buf, 2, len - 1), 3))
         ELSE Ret(rd, Event("PI", SubSeq(buf, 2, len - 1), 0))
    ELSE Ret(AddPosition(rd, 0 - len), Error("UnexpectedEof(XmlDecl)", <<>>, <<>>))

\* Parser::read_question_mark
read_question_mark(rd, buf) ==
    LET len == Len(buf) IN
    IF len > 2 /\ buf[len] = "?"
    THEN IF len > 5 /\ SubSeq(buf, 2, 4) = <<"x", "m", "l">> /\ is_whitespace(buf[5])
         THEN LET content == SubSeq(buf, 2, len - 1)
                  encoding == DeclEncoder(content)
              IN  IF can_be_refined(rd.encoding) /\ encoding # ""
                  THEN Ret([rd EXCEPT !.encoding =
                                [prov |-> "XmlDetected", enc |-> encoding]],
                           Event("Decl", content, 3))
                  ELSE Ret(rd, Event("Decl", content, 3))
         ELSE Ret(rd, Event("PI", SubSeq(buf, 2, len - 1), 0))
    ELSE Ret(AddPosition(rd, 0 - len), Error("UnexpectedEof(XmlDecl)", <<>>, <<>>))

\* a close_expanded_empty that leaves the state Empty
close_expanded_empty_again(rd) ==
    LET start == rd.opened_starts[Len(rd.opened_starts)]
    IN  Ret(rd, Event("End", Suffix(rd.opened_buffer, start), Len(rd.opened_buffer) - start))

\* a close_expanded_empty that leaves the synthetic entry on the stack
close_expanded_empty_no_pop(rd) ==
    LET start == rd.opened_starts[Len(rd.opened_starts)]
    IN  Ret([rd EXCEPT !.tag_state = "Closed"],
            Event("End", Suffix(rd.opened_buffer, start), Len(rd.opened_buffer) - start))

\* Parser::close_expanded_empty
close_expanded_empty(rd) ==
    LET start == rd.opened_starts[Len(rd.opened_starts)]
    IN  Ret([rd EXCEPT !.tag_state = "Closed",
                       !.opened_starts = Prefix(@, Len(@) - 1),
                       !.opened_buffer = Prefix(@, start)],
            Event("End", Suffix(rd.opened_buffer, start), Len(rd.opened_buffer) - start))

\* a read_start that pushes the whole tag content, attributes included, as
\* the name of an expanded empty element
read_start_expand_whole(rd, buf) ==
    LET len == Len(buf)
        name_end == NameEnd(buf)
        buf_len == Len(rd.opened_buffer)
    IN  IF len > 0 /\ buf[len] = "/"
        THEN LET end == IF name_end < len THEN name_end ELSE len - 1
             IN  IF cfg.expand_empty_elements
                 THEN Ret([rd EXCEPT !.tag_state = "Empty",
                                     !.opened_starts = Append(@, buf_len),
                                     !.opened_buffer = @ \o Prefix(buf, len - 1)],
                          Event("Start", Prefix(buf, len - 1), end))
                 ELSE Ret(rd, Event("Empty", Prefix(buf, len - 1), end))
        ELSE IF cfg.check_end_names
             THEN Ret([rd EXCEPT !.opened_starts = Append(@, buf_len),
                                 !.opened_buffer = @ \o Prefix(buf, name_end)],
                      Event("Start", buf, name_end))
             ELSE Ret(rd, Event("Start", buf, name_end))

\* a read_start that leaves the state Closed after an expanded empty element
read_start_expand_closed(rd, buf) ==
    LET len == Len(buf)
        name_end == NameEnd(buf)
        buf_len == Len(rd.opened_buffer)
    IN  IF len > 0 /\ buf[len] = "/"
        THEN LET end == IF name_end < len THEN name_end ELSE len - 1
             IN  IF cfg.expand_empty_elements
                 THEN Ret([rd EXCEPT !.opened_starts = Append(@, buf_len),
                                     !.opened_buffer = @ \o Prefix(buf, end)],
                          Event("Start", Prefix(buf, len - 1), end))
                 ELSE Ret(rd, Event("Empty", Prefix(buf, len - 1), end))
        ELSE IF cfg.check_end_names
             THEN Ret([rd EXCEPT !.opened_starts = Append(@, buf_len),
                                 !.opened_buffer = @ \o Prefix(buf, name_end)],
                      Event("Start", buf, name_end))
             ELSE Ret(rd, Event("Start", buf, name_end))

\* Parser::read_start
read_start(rd, buf) ==
    LET len == Len(buf)
        name_end == NameEnd(buf)
        buf_len == Len(rd.opened_buffer)
    IN  IF len > 0 /\ buf[len] = "/"
        THEN LET end == IF name_end < len THEN name_end ELSE len - 1
             IN  IF cfg.expand_empty_elements
                 THEN Ret([rd EXCEPT !.tag_state = "Empty",
                                     !.opened_starts = Append(@, buf_len),
                                     !.opened_buffer = @ \o Prefix(buf, end)],
                          Event("Start", Prefix(buf, len - 1), end))
                 ELSE Ret(rd, Event("Empty", Prefix(buf, len - 1), end))
        ELSE IF cfg.check_end_names
             THEN Ret([rd EXCEPT !.opened_starts = Append(@, buf_len),
                                 !.opened_buffer = @ \o Prefix(buf, name_end)],
                      Event("Start", buf, name_end))
             ELSE Ret(rd, Event("Start", buf, name_end))

----------------------------------------------------------------------------
(* reader.rs: the private read methods of Reader                           *)

\* the trimming of a text's end in read_until_open
TrimEnd(bytes) ==
    LET keep == {j \in 1..Len(bytes) : ~is_whitespace(bytes[j])}
    IN  IF keep = {} THEN bytes ELSE Prefix(bytes, Max(keep))

\* Reader::read_until_close
read_until_close(rd0) ==
    LET rd == set_tag_state(rd0, "Closed")
        peek == PeekOne(rd)
    IN  CASE peek = "!" ->
                LET o == ReadBangElement(rd)
                IN  CASE o.tag = "None" -> Ret(o.r, Eof)
                      [] o.tag = "Some" -> read_bang(o.r, o.bt, o.bytes)
                      [] OTHER -> Ret(o.r, Error(o.err, <<>>, <<>>))
          [] peek = "/" ->
                LET o == ReadBytesUntil(rd, ">")
                IN  CASE o.tag = "None" -> Ret(o.r, Eof)
                      [] o.tag = "Some" -> read_end(o.r, o.bytes)
                      [] OTHER -> Ret(o.r, Error(o.err, <<>>, <<>>))
          [] peek = "?" ->
                LET o == ReadBytesUntil(rd, ">")
                IN  CASE o.tag = "None" -> Ret(o.r, Eof)
                      [] o.tag = "Some" -> read_question_mark(o.r, o.bytes)
                      [] OTHER -> Ret(o.r, Error(o.err, <<>>, <<>>))
          [] peek = "" -> Ret(rd, Eof)
          [] OTHER ->
                LET o == ReadElement(rd)
                IN  CASE o.tag = "None" -> Ret(o.r, Eof)
                      [] o.tag = "Some" -> read_start(o.r, o.bytes)
                      [] OTHER -> Ret(o.r, Error(o.err, <<>>, <<>>))

\* a final match that turns an Eof met with elements still open into an
\* error
ExitOnEndUnclosed(res) ==
    IF res.ev.kind = "Eof" /\ res.r.opened_starts # <<>>
    THEN Ret(set_tag_state(res.r, "Exit"), Error("UnexpectedEof(Element)", <<>>, <<>>))
    ELSE IF res.ev.kind \in {"Err", "Eof"}
         THEN Ret(set_tag_state(res.r, "Exit"), res.ev)
         ELSE res

\* a final match that forces Exit on Eof only, not on an error
ExitOnEofOnly(res) ==
    IF res.ev.kind = "Eof"
    THEN Ret(set_tag_state(res.r, "Exit"), res.ev)
    ELSE res

\* the match at the end of read_event_impl: an error or Eof forces Exit
ExitOnEnd(res) ==
    IF res.ev.kind \in {"Err", "Eof"}
    THEN Ret(set_tag_state(res.r, "Exit"), res.ev)
    ELSE res

\* a read_until_open that, on the first read, does not look for a `<` at
\* the cursor and so returns the text before it even when there is none
read_until_open_text_first(rd0, first) ==
    LET rd1 == set_tag_state(rd0, "Opened")
        rd2 == IF cfg.trim_text_start THEN SkipWhitespace(rd1) ELSE rd1
        one == SkipOne(rd2, "<")
        o == ReadBytesUntil(rd2, "<")
        detected == detect_encoding(o.bytes)
        rd3 == IF first /\ can_be_refined(o.r.encoding) /\ detected # ""
               THEN [o.r EXCEPT !.encoding = [prov |-> "BomDetected", enc |-> detected]]
               ELSE o.r
        content == IF cfg.trim_text_end THEN TrimEnd(o.bytes) ELSE o.bytes
    IN  IF one.hit /\ ~first THEN [r |-> one.r, again |-> TRUE, ev |-> NoEvent]
        ELSE CASE o.tag = "Some" ->
                    [r |-> rd3, again |-> FALSE,
                     ev |-> Event(IF first THEN "StartText" ELSE "Text", content, 0)]
               [] o.tag = "None" -> [r |-> o.r, again |-> FALSE, ev |-> Eof]
               [] OTHER -> [r |-> o.r, again |-> FALSE, ev |-> Error(o.err, <<>>, <<>>)]

\* Reader::read_until_open, up to its recursive call of read_event_impl:
\* [r, again, ev], again = TRUE when the reader stood at a `<` and skipped it
read_until_open(rd0, first) ==
    LET rd1 == set_tag_state(rd0, "Opened")
        rd2 == IF cfg.trim_text_start THEN SkipWhitespace(rd1) ELSE rd1
        one == SkipOne(rd2, "<")
        o == ReadBytesUntil(rd2, "<")
        detected == detect_encoding(o.bytes)
        rd3 == IF first /\ can_be_refined(o.r.encoding) /\ detected # ""
               THEN [o.r EXCEPT !.encoding = [prov |-> "BomDetected", enc |-> detected]]
               ELSE o.r
        content == IF cfg.trim_text_end THEN TrimEnd(o.bytes) ELSE o.bytes
    IN  IF one.hit THEN [r |-> one.r, again |-> TRUE, ev |-> NoEvent]
        ELSE CASE o.tag = "Some" ->
                    [r |-> rd3, again |-> FALSE,
                     ev |-> Event(IF first THEN "StartText" ELSE "Text", content, 0)]
               [] o.tag = "None" -> [r |-> o.r, again |-> FALSE, ev |-> Eof]
               [] OTHER -> [r |-> o.r, again |-> FALSE, ev |-> Error(o.err, <<>>, <<>>)]

\* Reader::read_event_impl.  The call that read_until_open makes when it
\* skipped a `<` finds the state Opened and so runs read_until_close; its
\* result passes the final match of both invocations
read_event_impl(rd) ==
    CASE rd.tag_state \in {"Init", "Closed"} ->
            LET u == read_until_open(rd, rd.tag_state = "Init")
            IN  IF u.again
                THEN ExitOnEnd(ExitOnEnd(read_until_close(u.r)))
                ELSE ExitOnEnd(Ret(u.r, u.ev))
      [] rd.tag_state = "Opened" -> ExitOnEnd(read_until_close(rd))
      [] rd.tag_state = "Empty" -> ExitOnEnd(close_expanded_empty(rd))
      [] OTHER -> Ret(rd, Eof)

\* Reader::read_until_close_async
read_until_close_async(rd0) ==
    LET rd == set_tag_state(rd0, "Closed")
        peek == AsyncPeekOne(rd)
    IN  CASE peek = "!" ->
                LET o == AsyncReadBangElement(rd)
                IN  CASE o.tag = "None" -> Ret(o.r, Eof)
                      [] o.tag = "Some" -> read_bang(o.r, o.bt, o.bytes)
                      [] OTHER -> Ret(o.r, Error(o.err, <<>>, <<>>))
          [] peek = "/" ->
                LET o == AsyncReadBytesUntil(rd, ">")
                IN  CASE o.tag = "None" -> Ret(o.r, Eof)
                      [] o.tag = "Some" -> read_end(o.r, o.bytes)
                      [] OTHER -> Ret(o.r, Error(o.err, <<>>, <<>>))
          [] peek = "?" ->
                LET o == AsyncReadBytesUntil(rd, ">")
                IN  CASE o.tag = "None" -> Ret(o.r, Eof)
                      [] o.tag = "Some" -> read_question_mark(o.r, o.bytes)
                      [] OTHER -> Ret(o.r, Error(o.err, <<>>, <<>>))
          [] peek = "" -> Ret(rd, Eof)
          [] OTHER ->
                LET o == AsyncReadElement(rd)
                IN  CASE o.tag = "None" -> Ret(o.r, Eof)
                      [] o.tag = "Some" -> read_start(o.r, o.bytes)
                      [] OTHER -> Ret(o.r, Error(o.err, <<>>, <<>>))

\* a read_until_open_async that trims the start of a text whatever the
\* configuration says
read_until_open_async_trimming(rd0, first) ==
    LET rd1 == set_tag_state(rd0, "Opened")
        rd2 == AsyncSkipWhitespace(rd1)
        one == AsyncSkipOne(rd2, "<")
        o == AsyncReadBytesUntil(rd2, "<")
        detected == detect_encoding(o.bytes)
        rd3 == IF first /\ can_be_refined(o.r.encoding) /\ detected # ""
               THEN [o.r EXCEPT !.encoding = [prov |-> "BomDetected", enc |-> detected]]
               ELSE o.r
        content == IF cfg.trim_text_end THEN TrimEnd(o.bytes) ELSE o.bytes
    IN  IF one.hit THEN [r |-> one.r, again |-> TRUE, ev |-> NoEvent]
        ELSE CASE o.tag = "Some" ->
                    [r |-> rd3, again |-> FALSE,
                     ev |-> Event(IF first THEN "StartText" ELSE "Text", content, 0)]
               [] o.tag = "None" -> [r |-> o.r, again |-> FALSE, ev |-> Eof]
               [] OTHER -> [r |-> o.r, again |-> FALSE, ev |-> Error(o.err, <<>>, <<>>)]

\* Reader::read_until_open_async, up to its recursive call of
\* read_event_impl_async: [r, again, ev] as for read_until_open
read_until_open_async(rd0, first) ==
    LET rd1 == set_tag_state(rd0, "Opened")
        rd2 == IF cfg.trim_text_start THEN AsyncSkipWhitespace(rd1) ELSE rd1
        one == AsyncSkipOne(rd2, "<")
        o == AsyncReadBytesUntil(rd2, "<")
        detected == detect_encoding(o.bytes)
        rd3 == IF first /\ can_be_refined(o.r.encoding) /\ detected # ""
               THEN [o.r EXCEPT !.encoding = [prov |-> "BomDetected", enc |-> detected]]
               ELSE o.r
        content == IF cfg.trim_text_end THEN TrimEnd(o.bytes) ELSE o.bytes
    IN  IF one.hit THEN [r |-> one.r, again |-> TRUE, ev |-> NoEvent]
        ELSE CASE o.tag = "Some" ->
                    [r |-> rd3, again |-> FALSE,
                     ev |-> Event(IF first THEN "StartText" ELSE "Text", content, 0)]
               [] o.tag = "None" -> [r |-> o.r, again |-> FALSE, ev |-> Eof]
               [] OTHER -> [r |-> o.r, again |-> FALSE, ev |-> Error(o.err, <<>>, <<>>)]

\* Reader::read_event_impl_async; the recursive call is resolved as in
\* read_event_impl
read_event_impl_async(rd) ==
    CASE rd.tag_state \in {"Init", "Closed"} ->
            LET u == read_until_open_async(rd, rd.tag_state = "Init")
            IN  IF u.again
                THEN ExitOnEnd(ExitOnEnd(read_until_close_async(u.r)))
                ELSE ExitOnEnd(Ret(u.r, u.ev))
      [] rd.tag_state = "Opened" -> ExitOnEnd(read_until_close_async(rd))
      [] rd.tag_state = "Empty" -> ExitOnEnd(close_expanded_empty(rd))
      [] OTHER -> Ret(rd, Eof)

\* Reader::buffer_position
buffer_position(rd) ==
    IF rd.tag_state = "Opened" THEN rd.buf_position - 1 ELSE rd.buf_position

\* QName of a Start or End event: BytesStart::name, BytesEnd::name
EventName(e) == Prefix(e.content, e.name_len)

\* the Ok(()) of read_to_end
Unit == Event("Unit", <<>>, 0)

\* a read_to_end whose depth counter ignores the nested Start events
RECURSIVE read_to_end_flat(_, _, _)
read_to_end_flat(rd, end, depth) ==
    CHOOSE out \in
        { CASE res.ev.kind = "Err" -> res
            [] res.ev.kind = "End" /\ EventName(res.ev) = end ->
                  IF depth = 0 THEN Ret(res.r, Unit)
                  ELSE read_to_end_flat(res.r, end, depth - 1)
            [] res.ev.kind = "Eof" ->
                  Ret(res.r, Error("UnexpectedEof(</end>)", end, <<>>))
            [] OTHER -> read_to_end_flat(res.r, end, depth)
          : res \in {read_event_impl(rd)} } : TRUE

\* the loop of Reader::read_to_end, read_to_end_into and
\* read_to_end_into_async, entered with the depth counter at depth; res is
\* the result of the one read_event call of an iteration
RECURSIVE read_to_end_loop(_, _, _)
read_to_end_loop(rd, end, depth) ==
    CHOOSE out \in
        { CASE res.ev.kind = "Err" -> res
            [] res.ev.kind = "Start" /\ EventName(res.ev) = end ->
                  read_to_end_loop(res.r, end, depth + 1)
            [] res.ev.kind = "End" /\ EventName(res.ev) = end ->
                  IF depth = 0 THEN Ret(res.r, Unit)
                  ELSE read_to_end_loop(res.r, end, depth - 1)
            [] res.ev.kind = "Eof" ->
                  Ret(res.r, Error("UnexpectedEof(</end>)", end, <<>>))
            [] OTHER -> read_to_end_loop(res.r, end, depth)
          : res \in {read_event_impl(rd)} } : TRUE

\* Reader::read_to_end and its _into and _into_async forms
read_to_end(rd, end) == read_to_end_loop(rd, end, 0)

\* BytesText::unescape_and_decode on the texts of the model: `&lt;` stands
\* for `<`, every other byte for itself
RECURSIVE unescape_and_decode(_)
unescape_and_decode(s) ==
    IF s = <<>> THEN <<>>
    ELSE IF StartsWith(s, <<"&", "l", "t", ";">>)
         THEN <<"<">> \o unescape_and_decode(Suffix(s, 4))
         ELSE <<s[1]>> \o unescape_and_decode(Suffix(s, 1))

\* Reader::read_text_into and read_text_into_async; res is the result of
\* the read_event call, t of the read_to_end call
read_text_into(rd, end) ==
    CHOOSE out \in
        { CASE res.ev.kind = "Err" -> res
            [] res.ev.kind = "Text" ->
                  CHOOSE o \in
                      { IF t.ev.kind = "Err" THEN t
                        ELSE Ret(t.r, Event("String",
                                            unescape_and_decode(res.ev.content), 0))
                        : t \in {read_to_end(res.r, end)} } : TRUE
            [] res.ev.kind = "End" /\ EventName(res.ev) = end ->
                  Ret(res.r, Event("String", <<>>, 0))
            [] res.ev.kind = "Eof" ->
                  Ret(res.r, Error("UnexpectedEof(Text)", <<>>, <<>>))
            [] OTHER -> Ret(res.r, Error("TextNotFound", <<>>, <<>>))
          : res \in {read_event_impl(rd)} } : TRUE

\* a read_namespaced_event_internal that does not ask for the pop of the
\* scope of an Empty element
read_namespaced_event_internal_empty_kept(res) ==
    CASE res.ev.kind = "Start" ->
            Ret([res.r EXCEPT !.ns_scopes = @ + 1], res.ev)
      [] res.ev.kind = "Empty" ->
            Ret([res.r EXCEPT !.ns_scopes = @ + 1], res.ev)
      [] res.ev.kind = "End" ->
            Ret([res.r EXCEPT !.pending_pop = TRUE], res.ev)
      [] OTHER -> res

\* Reader::read_namespaced_event_internal: res is the result of
\* read_event_impl; the namespace that find returns is left out
read_namespaced_event_internal(res) ==
    CASE res.ev.kind = "Start" ->
            Ret([res.r EXCEPT !.ns_scopes = @ + 1], res.ev)
      [] res.ev.kind = "Empty" ->
            Ret([res.r EXCEPT !.ns_scopes = @ + 1, !.pending_pop = TRUE], res.ev)
      [] res.ev.kind = "End" ->
            Ret([res.r EXCEPT !.pending_pop = TRUE], res.ev)
      [] OTHER -> res

\* Reader::read_namespaced_event and read_namespaced_event_async
read_namespaced_event(rd) ==
    LET popped == IF rd.pending_pop THEN [rd EXCEPT !.ns_scopes = @ - 1] ELSE rd
    IN  read_namespaced_event_internal(
            read_event_impl([popped EXCEPT !.pending_pop = FALSE]))

----------------------------------------------------------------------------
(* The readers and documents of the model                                  *)

\* ParserBuilder: every combination of the six options
Configs ==
    [expand_empty_elements : BOOLEAN, trim_text_start : BOOLEAN,
     trim_text_end : BOOLEAN, trim_markup_names_in_closing_tags : BOOLEAN,
     check_end_names : BOOLEAN, check_comments : BOOLEAN]

\* ParserBuilder::new
DefaultConfig ==
    [expand_empty_elements |-> FALSE, trim_text_start |-> FALSE,
     trim_text_end |-> FALSE, trim_markup_names_in_closing_tags |-> TRUE,
     check_end_names |-> TRUE, check_comments |-> FALSE]

\* ParserBuilder::into_parser with the source of the reader.  pending_pop
\* and ns_scopes are the state of a NamespacedParser (from_parser):
\* ns_scopes counts the push calls on ns_resolver less the pop calls
NewReader(kind, cuts) ==
    [kind |-> kind, cuts |-> cuts, cursor |-> 0, buf_position |-> 0,
     tag_state |-> "Init", opened_buffer |-> <<>>, opened_starts |-> <<>>,
     encoding |-> [prov |-> "Implicit", enc |-> "UTF_8"], text |-> FALSE,
     pending_pop |-> FALSE, ns_scopes |-> 0, intr |-> <<>>, broken |-> -1]

\* ReaderBuilder::into_str_reader: a reader over the bytes of a &str
into_str_reader ==
    [NewReader("borrowed", {}) EXCEPT !.text = TRUE]

\* Reader::from_str_builder (and Reader::from_str): into_str_reader, then
\* the encoding is locked
from_str_builder ==
    [into_str_reader EXCEPT !.encoding = [prov |-> "Explicit", enc |-> "UTF_8"]]

\* stands for a reader a specification does not use
NoReader == NewReader("none", {})

NoScan == Out(NoReader, "none", <<>>, "", "")

\* the ways a BufRead splits n bytes: in one chunk, or every c bytes for
\* a chunk size c of the model
ChunkSizes == {1, 2}

Chunkings(n) ==
    {{}} \cup {{k \in 1..(n - 1) : k % c = 0} : c \in ChunkSizes}

\* the readers that can be built over a document of n bytes
Readers(n) ==
    {NewReader("borrowed", {})}
        \cup {NewReader(k, c) : k \in {"buffered", "async"}, c \in Chunkings(n)}

RECURSIVE Concats(_, _)
Concats(T, n) ==
    IF n = 0 THEN {<<>>}
    ELSE LET shorter == Concats(T, n - 1)
         IN  shorter \cup {d \o t : d \in shorter, t \in T}

Tokens ==
    { <<"<", "a", ">">>, <<"<", "b", ">">>, <<"<", "/", "a", ">">>,
      <<"<", "/", "b", " ", ">">>, <<"<", "a", "/", ">">>,
      <<"x">>, <<" ">>, <<"<", "a">> }

Curated ==
    { <<"<", "a", ">", "<", "b", ">", "<", "/", "a", ">", "<", "/", "b", ">">>,
      <<"<", "a", ">", "<", "b", "/", ">", "<", "/", "a", ">", "x">>,
      <<"<", "/", "a", " ", ">", "x">>,
      <<"<", "b", " ", "c", "/", ">", "x">>,
      <<"<", "!", "-", "-", "a", "-", "-", ">", "x">>,
      <<"<", "!", "-", "-", ">", "x">>,
      <<"<", "!", "-", "-", "a", "-", "-", "b", "-", "-", ">">>,
      <<"<", "!", "a", ">", "x">>,
      <<"<", "?", "p", "?", ">", "<", "?", ">", "x">>,
      <<"<", "a", " ", "b", "=", "'", ">", "'", "/", ">", "<", "/", "a", ">">>,
      <<"<", "a", ">", " ", "\t", "<", "b", ">">>,
      <<"<", "a", ">", " ", "x", "\n", "<", "b", ">", "\t">>,
      <<"<", "?", "x", "m", "l", " ", "?", ">", "<", "!", "D", "O", "C", "T",
        "Y", "P", "E", " ", "a", ">", "<", "!", "[", "C", "D", "A", "T", "A",
        "[", "a", "]", "]", ">">> }

Documents == Concats(Tokens, MaxTokens) \cup Curated

----------------------------------------------------------------------------
(* Spec: one reader over one document, read until the caller stops         *)

Init ==
    /\ input \in Documents
    /\ cfg \in Configs
    /\ r \in Readers(Len(input))
    /\ ev = NoEvent
    /\ prev = NoReader
    /\ pev = NoEvent
    /\ prev2 = NoReader
    /\ r2 = NoReader
    /\ ev2 = NoEvent
    /\ scan = NoScan

\* Reader::read_event, on a reader over a byte slice
ReadEvent ==
    /\ r.kind = "borrowed"
    /\ LET res == read_event_impl(r)
       IN  r' = res.r /\ ev' = res.ev
    /\ prev' = r /\ pev' = ev /\ prev2' = prev
    /\ UNCHANGED <<input, cfg, r2, ev2, scan>>

\* Reader::read_event_into, on a reader over a BufRead
ReadEventInto ==
    /\ r.kind = "buffered"
    /\ LET res == read_event_impl(r)
       IN  r' = res.r /\ ev' = res.ev
    /\ prev' = r /\ pev' = ev /\ prev2' = prev
    /\ UNCHANGED <<input, cfg, r2, ev2, scan>>

\* Reader::read_event_into_async, on a reader over an AsyncBufRead
ReadEventIntoAsync ==
    /\ r.kind = "async"
    /\ LET res == read_event_impl_async(r)
       IN  r' = res.r /\ ev' = res.ev
    /\ prev' = r /\ pev' = ev /\ prev2' = prev
    /\ UNCHANGED <<input, cfg, r2, ev2, scan>>

Next == ReadEvent \/ ReadEventInto \/ ReadEventIntoAsync

Spec == Init /\ [][Next]_vars

----------------------------------------------------------------------------
(* SpecEnc: the reads of Spec on documents that carry byte-order marks     *)
(* and XML declarations, by readers built over bytes and over a &str       *)

EncDocuments ==
    {
      <<"FF", "FE", "<", "?", "x", "m", "l", " ", "e", "n", "c", "o", "d",
        "i", "n", "g", "=", "'", "w", "i", "n", "d", "o", "w", "s", "-",
        "1", "2", "5", "1", "'", "?", ">">>,
      <<"<", "?", "x", "m", "l", " ", "e", "n", "c", "o", "d", "i", "n",
        "g", "=", "'", "U", "T", "F", "-", "1", "6", "'", "?", ">", "<",
        "?", "x", "m", "l", " ", "e", "n", "c", "o", "d", "i", "n", "g",
        "=", "'", "w", "i", "n", "d", "o", "w", "s", "-", "1", "2", "5",
        "1", "'", "?", ">">>,
      <<"<", "?", "x", "m", "l", " ", "e", "n", "c", "o", "d", "i", "n",
        "g", "=", "'", "U", "T", "F", "-", "1", "6", "'", "?", ">">>,
      <<"EF", "BB", "BF", "<", "?", "x", "m", "l", " ", "e", "n", "c", "o",
        "d", "i", "n", "g", "=", "'", "U", "T", "F", "-", "1", "6", "'",
        "?", ">">>,
      <<"FE", "FF", "x">>,
      <<"x", "<", "?", "x", "m", "l", " ", "e", "n", "c", "o", "d", "i",
        "n", "g", "=", "'", "w", "i", "n", "d", "o", "w", "s", "-", "1",
        "2", "5", "1", "'", "?", ">">>,
      <<"<", "?", "x", "m", "l", " ", "v", "e", "r", "s", "i", "o", "n",
        "=", "'", "1", "'", "?", ">", "<", "?", "x", "m", "l", " ", "e",
        "n", "c", "o", "d", "i", "n", "g", "=", "'", "U", "T", "F", "-",
        "1", "6", "'", "?", ">">>,
      <<"<", "?", "x", "m", "l", " ", "e", "n", "c", "o", "d", "i", "n",
        "g", "=", "'", "x", "'", "?", ">", "<", "?", "x", "m", "l", " ",
        "e", "n", "c", "o", "d", "i", "n", "g", "=", "'", "u", "t", "f",
        "-", "8", "'", "?", ">">>,
      <<"<", "a", ">", "FF", "FE", "<", "?", "x", "m", "l", " ", "e", "n",
        "c", "o", "d", "i", "n", "g", "=", "'", "U", "T", "F", "-", "1",
        "6", "'", "?", ">">>,
      <<" ", "FF", "FE", "<", "a", ">">>,
      <<"00", "<", "00", "?", "00", "x", "00", "?", "00", ">">>,
      <<"<", "00", "?", "00", "x", "00", "?", "00", ">", "00">> }

\* a &str holds UTF-8: none of the bytes FF, FE and 00 of the UTF-16 marks
IsStr(d) == \A j \in 1..Len(d) : d[j] \notin {"FF", "FE", "00"}

InitEnc ==
    /\ input \in EncDocuments
    /\ cfg \in Configs
    /\ r \in Readers(Len(input))
            \cup (IF IsStr(input) THEN {into_str_reader, from_str_builder} ELSE {})
    /\ ev = NoEvent
    /\ prev = NoReader
    /\ pev = NoEvent
    /\ prev2 = NoReader
    /\ r2 = NoReader
    /\ ev2 = NoEvent
    /\ scan = NoScan

SpecEnc == InitEnc /\ [][Next]_vars

----------------------------------------------------------------------------
(* SpecEquiv: the same document and configuration read in step by a        *)
(* reader over a BufRead (r) and by a reader over the byte slice (r2)      *)

InitEquiv ==
    /\ input \in Documents
    /\ cfg \in Configs
    /\ r \in {NewReader("buffered", c) : c \in Chunkings(Len(input))}
    /\ r2 = NewReader("borrowed", {})
    /\ ev = NoEvent
    /\ ev2 = NoEvent
    /\ prev = NoReader
    /\ pev = NoEvent
    /\ prev2 = NoReader
    /\ scan = NoScan

\* one Reader::read_event_into on r and one Reader::read_event on r2
ReadBoth ==
    /\ LET res == read_event_impl(r)
       IN  r' = res.r /\ ev' = res.ev
    /\ LET res2 == read_event_impl(r2)
       IN  r2' = res2.r /\ ev2' = res2.ev
    /\ prev' = r /\ pev' = ev /\ prev2' = r2
    /\ UNCHANGED <<input, cfg, scan>>

NextEquiv == ReadBoth

SpecEquiv == InitEquiv /\ [][NextEquiv]_vars

----------------------------------------------------------------------------
(* SpecPi: documents that begin with `<?`, read as under Spec              *)

PiTokens ==
    { <<"?">>, <<"x", "m", "l">>, <<" ">>, <<"\t">>, <<"-">>, <<"p">>, <<">">> }

PiDocuments ==
    { <<"<", "?">> \o t : t \in Concats(PiTokens, MaxPi) }
        \cup { <<"<", "?", "x", "m", "l", " ", "?", ">">>,
               <<"<", "?", "x", "m", "l", "-", "s", "t", "y", "l", "e", "s",
                 "h", "e", "e", "t", "?", ">">>,
               <<"<", "?", "x", "m", "l", "?", ">", "x">>,
               <<"<", "?", "x", "m", "l", "\n", "p", "?", ">", "<", "?", "p", "?", ">">> }

InitPi ==
    /\ input \in PiDocuments
    /\ cfg \in {DefaultConfig, [DefaultConfig EXCEPT !.trim_text_start = TRUE]}
    /\ r \in Readers(Len(input))
    /\ ev = NoEvent
    /\ prev = NoReader
    /\ pev = NoEvent
    /\ prev2 = NoReader
    /\ r2 = NoReader
    /\ ev2 = NoEvent
    /\ scan = NoScan

SpecPi == InitPi /\ [][Next]_vars

----------------------------------------------------------------------------
(* SpecCut: documents whose last markup lost its closing `>` to the end of *)
(* the input, read as under Spec                                           *)

CutTokens ==
    { <<"<", "a", ">">>, <<"<", "/", "a", ">">>, <<"<", "/", "b", " ", ">">>,
      <<"<", "/", ">">>, <<"<", "?", "p", "?", ">">>,
      <<"<", "?", "x", "m", "l", " ", "?", ">">>, <<"<", "?", "p", ">">>,
      <<"x">> }

CutDocuments ==
    { Prefix(d, Len(d) - 1) :
        d \in { c \in Concats(CutTokens, MaxTokens) :
                  c # <<>> /\ c[Len(c)] = ">" } }

InitCut ==
    /\ input \in CutDocuments
    /\ cfg \in { c \in Configs : /\ ~c.expand_empty_elements
                                /\ ~c.trim_text_end
                                /\ ~c.check_comments }
    /\ r \in Readers(Len(input))
    /\ ev = NoEvent
    /\ prev = NoReader
    /\ pev = NoEvent
    /\ prev2 = NoReader
    /\ r2 = NoReader
    /\ ev2 = NoEvent
    /\ scan = NoScan

SpecCut == InitCut /\ [][Next]_vars

----------------------------------------------------------------------------
(* SpecAsync: the same document, configuration and chunks read in step by  *)
(* a reader over a BufRead (r) and by a reader over an AsyncBufRead (r2)   *)

InitAsync ==
    /\ input \in Documents
    /\ cfg \in Configs
    /\ \E c \in Chunkings(Len(input)) :
          /\ r = NewReader("buffered", c)
          /\ r2 = NewReader("async", c)
    /\ ev = NoEvent
    /\ ev2 = NoEvent
    /\ prev = NoReader
    /\ pev = NoEvent
    /\ prev2 = NoReader
    /\ scan = NoScan

\* one Reader::read_event_into on r and one Reader::read_event_into_async
\* on r2
ReadBothAsync ==
    /\ LET res == read_event_impl(r)
       IN  r' = res.r /\ ev' = res.ev
    /\ LET res2 == read_event_impl_async(r2)
       IN  r2' = res2.r /\ ev2' = res2.ev
    /\ prev' = r /\ pev' = ev /\ prev2' = r2
    /\ UNCHANGED <<input, cfg, scan>>

NextAsync == ReadBothAsync

SpecAsync == InitAsync /\ [][NextAsync]_vars

----------------------------------------------------------------------------
(* SpecScan: one call of a source's read_bang_element or read_element on   *)
(* an input that starts just after a `<`, the source's data being split    *)
(* into fill_buf chunks in every possible way                              *)

RECURSIVE Strings(_, _)
Strings(A, n) ==
    IF n = 0 THEN {<<>>}
    ELSE LET shorter == Strings(A, n - 1)
         IN  shorter \cup {Append(t, a) : t \in shorter, a \in A}

\* comments, CDATA sections, DOCTYPEs and elements of up to MaxScanLen bytes
\* after their first ones, and three more: a nested DOCTYPE, a lone `!` and
\* a `!` followed by a byte that starts no bang construct
ScanInputs ==
    {<<"!", "-">> \o t : t \in Strings({"-", ">", "a"}, MaxScanLen)}
        \cup {<<"!", "[">> \o t : t \in Strings({"]", ">", "a"}, MaxScanLen)}
        \cup {<<"!", "D">> \o t : t \in Strings({"<", ">", "a"}, MaxScanLen)}
        \cup {<<"a">> \o t : t \in Strings({">", "'", "\"", "a"}, MaxScanLen)}
        \cup { <<"!", "D", "[", "<", "!", "E", ">", "]", ">", "x">>,
               <<"!">>, <<"!", "a", ">">>, <<"!", "d", ">">>, <<"!", "d">> }

ScanCuts(n) ==
    IF n <= MaxScanLen + 2 THEN SUBSET (1..(n - 1)) ELSE Chunkings(n)

InitScan ==
    /\ input \in ScanInputs
    /\ cfg = DefaultConfig
    /\ r \in {NewReader("borrowed", {})}
            \cup {NewReader(k, c) : k \in {"buffered", "async"},
                                    c \in ScanCuts(Len(input))}
    /\ scan = NoScan
    /\ ev = NoEvent
    /\ prev = NoReader
    /\ pev = NoEvent
    /\ prev2 = NoReader
    /\ r2 = NoReader
    /\ ev2 = NoEvent

\* XmlSource::read_bang_element, called as read_until_close calls it: the
\* next byte of the source is a `!`
CallReadBangElement ==
    /\ scan.tag = "none"
    /\ PeekOne(r) = "!"
    /\ scan' = ReadBangElement(r)
    /\ r' = scan'.r
    /\ prev' = r
    /\ UNCHANGED <<input, cfg, ev, pev, prev2, r2, ev2>>

\* XmlSource::read_element
CallReadElement ==
    /\ scan.tag = "none"
    /\ PeekOne(r) \notin {"!", ""}
    /\ scan' = ReadElement(r)
    /\ r' = scan'.r
    /\ prev' = r
    /\ UNCHANGED <<input, cfg, ev, pev, prev2, r2, ev2>>

NextScan == CallReadBangElement \/ CallReadElement

SpecScan == InitScan /\ [][NextScan]_vars

\* comments with bodies of up to MaxScanLen - 1 bytes, alone or followed by
\* text, and one construct for each other arm of read_bang
BangInputs ==
    {<<"!", "-", "-">> \o b \o <<"-", "-", ">">> \o t :
        b \in Strings({"-", "a"}, MaxScanLen - 1), t \in {<<>>, <<"x">>}}
        \cup { <<"!", "[", "C", "D", "A", "T", "A", "[", "a", "]", "]", ">">>,
               <<"!", "D", "O", "C", "T", "Y", "P", "E", " ", "a", ">">>,
               <<"!", "D", "O", "C", "T", "Y", "P", "E", ">", "x">>,
               <<"!", "d", "o", "c", "t", "y", "p", "e", " ", "\t", ">">>,
               <<"!", "[", "C", "D", "A", "T", "A", "[", "]", "]", ">">>,
               <<"!", "-", "a", "-", "-", ">">> }

InitBang ==
    /\ input \in BangInputs
    /\ cfg \in {DefaultConfig, [DefaultConfig EXCEPT !.check_comments = TRUE]}
    /\ r \in {NewReader("borrowed", {})}
            \cup {NewReader(k, c) : k \in {"buffered", "async"},
                                    c \in ScanCuts(Len(input))}
    /\ scan = NoScan
    /\ ev = NoEvent
    /\ prev = NoReader
    /\ pev = NoEvent
    /\ prev2 = NoReader
    /\ r2 = NoReader
    /\ ev2 = NoEvent

\* Parser::read_bang, called as read_until_close calls it: on the bytes that
\* read_bang_element returned, in a build with or without debug assertions
CallReadBang ==
    /\ scan.tag = "Some"
    /\ ev = NoEvent
    /\ \E debug \in BOOLEAN :
         LET ret == read_bang_build(r, scan.bt, scan.bytes, debug)
         IN  /\ r' = ret.r
             /\ ev' = ret.ev
    /\ UNCHANGED <<input, cfg, scan, prev, pev, prev2, r2, ev2>>

NextBang == CallReadBangElement \/ CallReadBang

SpecBang == InitBang /\ [][NextBang]_vars

----------------------------------------------------------------------------
(* SpecSkip: a reader whose caller may answer a Start event with           *)
(* read_to_end or read_text_into                                           *)

SkipTokens ==
    { <<"<", "a", ">">>, <<"<", "/", "a", ">">>, <<"<", "b", ">">>,
      <<"<", "/", "b", ">">>, <<"<", "a", "/", ">">>, <<"x">> }

\* an `<a>` followed by up to MaxNest tokens, and three longer documents:
\* a nested `<a>` with text after the outer end tag, the text of the example
\* of read_text_into, and a text followed by a nested element
SkipDocuments ==
    {<<"<", "a", ">">> \o d : d \in Concats(SkipTokens, MaxNest)}
        \cup { <<"<", "a", ">", "<", "a", ">", "<", "/", "a", ">",
                 "<", "/", "a", ">", "x">>,
               <<"<", "a", ">", "&", "l", "t", ";", "b", "<", "/", "a", ">">>,
               <<"<", "b", ">", "x", "<", "a", "/", ">", "<", "/", "b", ">", "x">> }

InitSkip ==
    /\ input \in SkipDocuments
    /\ cfg \in {[DefaultConfig EXCEPT !.check_end_names = c,
                                      !.expand_empty_elements = x] :
                    c \in BOOLEAN, x \in BOOLEAN}
    /\ r \in Readers(Len(input))
    /\ ev = NoEvent
    /\ prev = NoReader
    /\ pev = NoEvent
    /\ prev2 = NoReader
    /\ r2 = NoReader
    /\ ev2 = NoEvent
    /\ scan = NoScan

\* Reader::read_event, read_event_into or read_event_into_async, whichever
\* the reader has
ReadAny ==
    /\ \E res \in {read_event_impl(r)} :
            r' = res.r /\ ev' = res.ev
    /\ prev' = r /\ pev' = ev /\ prev2' = prev
    /\ UNCHANGED <<input, cfg, r2, ev2, scan>>

\* The calls below are made right after a Start event, with the name of that
\* event; scan records the call: the reader it began with, the operation
\* and the name it was given

\* Reader::read_to_end, read_to_end_into or read_to_end_into_async,
\* whichever the reader has
ReadToEnd ==
    /\ ev.kind = "Start"
    /\ \E res \in {read_to_end(r, EventName(ev))} :
            r' = res.r /\ ev' = res.ev
    /\ scan' = Out(r, "read_to_end", EventName(ev), "", "")
    /\ prev' = r /\ pev' = ev /\ prev2' = prev
    /\ UNCHANGED <<input, cfg, r2, ev2>>

\* Reader::read_text_into or read_text_into_async, on a reader over a
\* BufRead or an AsyncBufRead
ReadTextInto ==
    /\ r.kind \in {"buffered", "async"}
    /\ ev.kind = "Start"
    /\ \E res \in {read_text_into(r, EventName(ev))} :
            r' = res.r /\ ev' = res.ev
    /\ scan' = Out(r, "read_text", EventName(ev), "", "")
    /\ prev' = r /\ pev' = ev /\ prev2' = prev
    /\ UNCHANGED <<input, cfg, r2, ev2>>

NextSkip == ReadAny \/ ReadToEnd \/ ReadTextInto

SpecSkip == InitSkip /\ [][NextSkip]_vars

----------------------------------------------------------------------------
(* SpecNs: a namespace-aware reader over one document                      *)

NsTokens ==
    { <<"<", "a", ">">>, <<"<", "/", "a", ">">>, <<"<", "a", "/", ">">>, <<"x">> }

NsDocuments == Concats(NsTokens, MaxNest + 1)

InitNs ==
    /\ input \in NsDocuments
    /\ cfg \in {[DefaultConfig EXCEPT !.check_end_names = c,
                                      !.expand_empty_elements = x] :
                    c \in BOOLEAN, x \in BOOLEAN}
    /\ r \in {NewReader(k, c) : k \in {"buffered", "async"},
                                c \in Chunkings(Len(input))}
    /\ ev = NoEvent
    /\ prev = NoReader
    /\ pev = NoEvent
    /\ prev2 = NoReader
    /\ r2 = NoReader
    /\ ev2 = NoEvent
    /\ scan = NoScan

\* Reader::read_namespaced_event, on a reader over a BufRead
ReadNamespacedEvent ==
    /\ r.kind = "buffered"
    /\ \E res \in {read_namespaced_event(r)} :
            r' = res.r /\ ev' = res.ev
    /\ prev' = r /\ pev' = ev /\ prev2' = prev
    /\ UNCHANGED <<input, cfg, r2, ev2, scan>>

\* Reader::read_namespaced_event_async, on a reader over an AsyncBufRead
ReadNamespacedEventAsync ==
    /\ r.kind = "async"
    /\ \E res \in {read_namespaced_event(r)} :
            r' = res.r /\ ev' = res.ev
    /\ prev' = r /\ pev' = ev /\ prev2' = prev
    /\ UNCHANGED <<input, cfg, r2, ev2, scan>>

NextNs == ReadNamespacedEvent \/ ReadNamespacedEventAsync

SpecNs == InitNs /\ [][NextNs]_vars

\* ---- streams that fail: Err(Interrupted) and other I/O errors ----

IoInputs ==
    { <<"a", "b", "<", "c">>, <<"a", "b">>,
      <<"a", "'", ">", "'", ">", "x">>, <<"a", " ", "b">>,
      <<"!", "-", "-", "a", "-", "-", ">", "x">>, <<"!", "D", ">">>,
      <<"!", "[", "C">>, <<"!">>,
      <<" ", "\t", " ", "x">>, <<" ", " ">> }

\* the cursors at which the stream answers Err(Interrupted), one entry for
\* each such answer
IntrSchedules(n) ==
    { s \in UNION {[1..k -> 0..n] : k \in 0..MaxIntr} :
        \A i \in 1..(Len(s) - 1) : s[i] <= s[i + 1] }

\* a reader over a stream that is interrupted by the schedule and fails at
\* one cursor, or nowhere (-1)
InitIo ==
    /\ input \in IoInputs
    /\ cfg = DefaultConfig
    /\ r \in { [NewReader(k, c) EXCEPT !.intr = s, !.broken = b] :
                 k \in {"buffered", "async"}, c \in Chunkings(Len(input)),
                 s \in IntrSchedules(Len(input)), b \in -1..Len(input) }
    /\ scan = NoScan
    /\ ev = NoEvent
    /\ prev = NoReader
    /\ pev = NoEvent
    /\ prev2 = NoReader
    /\ r2 = NoReader
    /\ ev2 = NoEvent

\* the call made, by name
Call(op) == Event(op, <<>>, 0)

\* XmlSource::read_bytes_until(b'<')
IoReadBytesUntil ==
    /\ scan' = IF r.kind = "async" THEN AsyncReadBytesUntil(r, "<")
               ELSE BufReadBytesUntil(r, "<")
    /\ ev' = Call("read_bytes_until")
    /\ r' = scan'.r
    /\ prev' = r
    /\ UNCHANGED <<input, cfg, pev, prev2, r2, ev2>>

\* XmlSource::read_bang_element, called with a `!` as the next byte
IoReadBangElement ==
    /\ FillBuf(r) # <<>>
    /\ FillBuf(r)[1] = "!"
    /\ scan' = IF r.kind = "async" THEN AsyncReadBangElement(r)
               ELSE BufReadBangElement(r)
    /\ ev' = Call("read_bang_element")
    /\ r' = scan'.r
    /\ prev' = r
    /\ UNCHANGED <<input, cfg, pev, prev2, r2, ev2>>

\* XmlSource::read_element
IoReadElement ==
    /\ scan' = IF r.kind = "async" THEN AsyncReadElement(r)
               ELSE BufReadElement(r)
    /\ ev' = Call("read_element")
    /\ r' = scan'.r
    /\ prev' = r
    /\ UNCHANGED <<input, cfg, pev, prev2, r2, ev2>>

\* XmlSource::skip_whitespace
IoSkipWhitespace ==
    /\ scan' = IF r.kind = "async" THEN AsyncSkipWhitespaceLoop(r)
               ELSE BufSkipWhitespaceLoop(r)
    /\ ev' = Call("skip_whitespace")
    /\ r' = scan'.r
    /\ prev' = r
    /\ UNCHANGED <<input, cfg, pev, prev2, r2, ev2>>

\* XmlSource::peek_one
IoPeekOne ==
    /\ scan' = IF r.kind = "async" THEN AsyncPeekOneLoop(r)
               ELSE BufPeekOneLoop(r)
    /\ ev' = Call("peek_one")
    /\ r' = scan'.r
    /\ prev' = r
    /\ UNCHANGED <<input, cfg, pev, prev2, r2, ev2>>

NextIo ==
    \/ IoReadBytesUntil
    \/ IoReadBangElement
    \/ IoReadElement
    \/ IoSkipWhitespace
    \/ IoPeekOne

SpecIo == InitIo /\ [][NextIo]_vars

----------------------------------------------------------------------------
(* SpecLive: the reads of Spec, repeated for as long as they change        *)
(* anything, over streams that answer Err(Interrupted) a few times         *)

LiveDocuments ==
    { <<"<", "a", ">", "<", "b", "/", ">", "x">>,
      <<"<", "a", "/", ">">>,
      <<" ", "x", " ", "<", "a", ">", " ">>,
      <<"<", "a", ">", "<", "/", "b", ">">>,
      <<"<", "!", "-", "-", "-", "-", ">", "x">>,
      <<"<", "?", "p", "?", ">", "<", "a">>,
      <<"x">>, <<>> }

LiveConfigs ==
    { [DefaultConfig EXCEPT !.expand_empty_elements = e, !.trim_text_start = t] :
        e \in BOOLEAN, t \in BOOLEAN }

InitLive ==
    /\ input \in LiveDocuments
    /\ cfg \in LiveConfigs
    /\ r \in {NewReader("borrowed", {})}
            \cup { [NewReader(k, c) EXCEPT !.intr = s] :
                     k \in {"buffered", "async"}, c \in Chunkings(Len(input)),
                     s \in IntrSchedules(Len(input)) }
    /\ ev = NoEvent
    /\ prev = NoReader
    /\ pev = NoEvent
    /\ prev2 = NoReader
    /\ r2 = NoReader
    /\ ev2 = NoEvent
    /\ scan = NoScan

\* the read the reader's kind makes
ReadOf(rd) ==
    IF rd.kind = "async" THEN read_event_impl_async(rd) ELSE read_event_impl(rd)

\* ENABLED <<Next>>_vars, computed: a read is a function of the state, and
\* the step it makes is <<Next>>_vars when it changes some variable
Reading ==
    <<ReadOf(r).r, ReadOf(r).ev, r, ev, prev>> # <<r, ev, prev, pev, prev2>>

\* weak fairness of Next, WF_vars(Next), with its ENABLED written as Reading
FairReads == []<>(~Reading) \/ []<><<Next>>_vars

\* the caller reads again whenever a read is still to change something
SpecLive == InitLive /\ [][Next]_vars /\ FairReads

----------------------------------------------------------------------------
(* SpecTally: the reads of Spec by a caller that tallies the Start and End *)
(* events it is given and keeps the names of the elements they leave open  *)

TallyDocuments ==
    SkipDocuments
        \cup { <<"<", "a", " ", "b", ">", "<", "c", "/", ">", "<", "/", "a", " ", ">">>,
               <<"<", ">", "<", ">", "<", "/", ">", "<", "/", ">">> }

\* the tally before the first read
NoTally == [starts |-> 0, ends |-> 0, open |-> <<>>, failed |-> FALSE]

\* the tally after the event e
Tally(t, e) ==
    [starts |-> t.starts + (IF e.kind = "Start" THEN 1 ELSE 0),
     ends |-> t.ends + (IF e.kind = "End" THEN 1 ELSE 0),
     open |-> IF e.kind = "Start" THEN Append(t.open, EventName(e))
              ELSE IF e.kind = "End" /\ t.open # <<>>
                   THEN Prefix(t.open, Len(t.open) - 1)
                   ELSE t.open,
     failed |-> t.failed \/ e.kind = "Err"]

InitTally ==
    /\ input \in TallyDocuments
    /\ cfg \in {[DefaultConfig EXCEPT !.check_end_names = TRUE,
                                      !.expand_empty_elements = x,
                                      !.trim_markup_names_in_closing_tags = t] :
                    x \in BOOLEAN, t \in BOOLEAN}
    /\ r \in Readers(Len(input))
    /\ ev = NoEvent
    /\ prev = NoReader
    /\ pev = NoEvent
    /\ prev2 = NoReader
    /\ r2 = NoReader
    /\ ev2 = NoEvent
    /\ scan = NoTally

\* Reader::read_event, read_event_into or read_event_into_async, and the
\* caller's note of the event
ReadTally ==
    /\ LET res == ReadOf(r)
       IN  r' = res.r /\ ev' = res.ev /\ scan' = Tally(scan, res.ev)
    /\ prev' = r /\ pev' = ev /\ prev2' = prev
    /\ UNCHANGED <<input, cfg, r2, ev2>>

NextTally == ReadTally

SpecTally == InitTally /\ [][NextTally]_vars

----------------------------------------------------------------------------
(* What the last read of r took from the input, told from the input alone  *)

\* the bytes the last read consumed
Consumed == SubSeq(input, prev.cursor + 1, r.cursor)

\* with trim_text_start, the whitespace before the markup is not text
Unpadded(s) ==
    IF cfg.trim_text_start
    THEN Suffix(s, IF \E j \in 1..Len(s) : s[j] \notin {" ", "\r", "\n", "\t"}
                   THEN Min({j \in 1..Len(s) : s[j] \notin {" ", "\r", "\n", "\t"}}) - 1
                   ELSE Len(s))
    ELSE s

\* the last read was a read of markup: either the `<` had been consumed by
\* the read before (state Opened), or the read began at the `<`
MarkupRead ==
    /\ prev.kind # "none"
    /\ \/ prev.tag_state = "Opened"
       \/ /\ prev.tag_state \in {"Init", "Closed"}
          /\ Unpadded(Consumed) # <<>>
          /\ Head(Unpadded(Consumed)) = "<"

\* the bytes of that markup after its `<`, its closing `>` included
Markup ==
    IF prev.tag_state = "Opened" THEN Consumed ELSE Tail(Unpadded(Consumed))

\* the last read was a read of a self-closing tag `<name .../>`
SelfClosingTagRead ==
    /\ MarkupRead
    /\ Len(Markup) >= 2
    /\ Markup[1] \notin {"!", "?", "/"}
    /\ Markup[Len(Markup)] = ">"
    /\ Markup[Len(Markup) - 1] = "/"

\* the name of the tag `name .../>`: up to the first whitespace, or up to
\* the closing `/>` when there is none
TagName(m) ==
    LET blanks == {j \in 1..Len(m) : m[j] \in {" ", "\r", "\n", "\t"}}
    IN  IF blanks = {} THEN Prefix(m, Len(m) - 2) ELSE Prefix(m, Min(blanks) - 1)

\* the last read was a read of an end tag `</name>`; read_bytes_until ends
\* it at its first `>`, or at the end of the input
EndTagRead ==
    /\ MarkupRead
    /\ Len(Markup) >= 1
    /\ Markup[1] = "/"

\* the name of the end tag `/name  >`, trailing whitespace stripped when
\* trim_markup_names_in_closing_tags is set
RECURSIVE Stripped(_)
Stripped(s) ==
    IF s # <<>> /\ s[Len(s)] \in {" ", "\r", "\n", "\t", "\f"}
    THEN Stripped(Prefix(s, Len(s) - 1))
    ELSE s

EndTagName(m) ==
    LET raw == IF m[Len(m)] = ">" THEN SubSeq(m, 2, Len(m) - 1) ELSE Suffix(m, 1)
    IN  IF cfg.trim_markup_names_in_closing_tags THEN Stripped(raw) ELSE raw

\* the open-element stack of a reader, as the list of the open names
RECURSIVE NamesOf(_, _)
NamesOf(buffer, starts) ==
    IF starts = <<>> THEN <<>>
    ELSE Append(NamesOf(Prefix(buffer, starts[Len(starts)]),
                        Prefix(starts, Len(starts) - 1)),
                Suffix(buffer, starts[Len(starts)]))

Stack(rd) == NamesOf(rd.opened_buffer, rd.opened_starts)

SameStack(a, b) ==
    a.opened_buffer = b.opened_buffer /\ a.opened_starts = b.opened_starts

----------------------------------------------------------------------------
(* The claims about the reader, checked under Spec                         *)

\* C1: Exit is absorbing: once a read has returned Eof or an error, the
\* next read, and so every later one, returns Ok(Eof) and leaves the source
\* cursor, the position counter, the open-element stack, the encoding and
\* the tag state as they were, whatever bytes remain unconsumed.
C1_ExitAbsorbing ==
    [][ev.kind \in {"Err", "Eof"} => (ev' = Eof /\ r' = r)]_vars

\* a read made after an error, with input bytes left unconsumed
C1_Witness ==
    /\ pev.kind = "Err"
    /\ prev.tag_state = "Exit"
    /\ ev = Eof
    /\ r.cursor < Len(input)

\* C4: a self-closing tag `<name .../>` yields one Empty event and leaves
\* the stack untouched when expand_empty_elements is false; when it is true
\* it yields Start(name), and the very next read returns End(name) without
\* consuming input or moving the position, after which the stack is as it
\* was before the Start.
C4_SelfClosingTag ==
    /\ (SelfClosingTagRead /\ ~cfg.expand_empty_elements) =>
            /\ ev.kind = "Empty"
            /\ ev.content = Prefix(Markup, Len(Markup) - 2)
            /\ Prefix(ev.content, ev.name_len) = TagName(Markup)
            /\ SameStack(r, prev)
    /\ (SelfClosingTagRead /\ cfg.expand_empty_elements) =>
            /\ ev.kind = "Start"
            /\ ev.content = Prefix(Markup, Len(Markup) - 2)
            /\ Prefix(ev.content, ev.name_len) = TagName(Markup)
            /\ r.tag_state = "Empty"
    /\ (prev.tag_state = "Empty") =>
            /\ pev.kind = "Start"
            /\ ev.kind = "End"
            /\ ev.content = Prefix(pev.content, pev.name_len)
            /\ r.cursor = prev.cursor
            /\ r.buf_position = prev.buf_position
            /\ SameStack(r, prev2)

\* the End synthesised for `<a/>` inside an open element
C4_Witness ==
    /\ cfg.expand_empty_elements
    /\ prev.tag_state = "Empty"
    /\ pev.kind = "Start"
    /\ ev = Event("End", <<"a">>, 1)
    /\ r.opened_starts # <<>>

\* C5: with check_end_names, an end tag whose trimmed name differs from the
\* name of the innermost open element fails with EndEventMismatch{expected:
\* that name, found: the end-tag name}; an end tag met with no element open
\* fails the same way with an empty expected name.
C5_EndMismatch ==
    (EndTagRead /\ cfg.check_end_names) =>
        LET name == EndTagName(Markup)
            stack == Stack(prev)
        IN  /\ (stack # <<>> /\ name # stack[Len(stack)]) =>
                    ev = Error("EndEventMismatch", stack[Len(stack)], name)
            /\ (stack = <<>>) =>
                    ev = Error("EndEventMismatch", <<>>, name)

\* C6: with check_end_names = false, read_end never fails and leaves the
\* open-element stack alone: every end tag comes back as an End event with
\* the name found in the input.
C6_UncheckedEnd ==
    (EndTagRead /\ ~cfg.check_end_names) =>
        /\ ev = Event("End", EndTagName(Markup), Len(EndTagName(Markup)))
        /\ SameStack(r, prev)

\* `<a><b></a></b>` read without the check: End("a"), then End("b")
C6_Witness ==
    /\ ~cfg.check_end_names
    /\ input = <<"<", "a", ">", "<", "b", ">", "<", "/", "a", ">", "<", "/", "b", ">">>
    /\ pev = Event("End", <<"a">>, 1)
    /\ ev = Event("End", <<"b">>, 1)

----------------------------------------------------------------------------
(* The claim about the two sources, checked under SpecEquiv                *)

\* C2: for every input and configuration the reader over a BufRead and the
\* reader over the byte slice return the same sequence of results: after
\* each pair of reads the two results are the same event with the same
\* bytes, or the same error, also when the input ends inside a start tag.
C2_SameResults == ev = ev2

----------------------------------------------------------------------------
(* The claims about the scans, checked under SpecScan                      *)

\* C3: the result of read_bang_element on a streaming source does not
\* depend on the fill_buf chunks: whatever the chunks, it is the BangType,
\* the bytes, the error and the position that the same source gives when
\* its whole input arrives in one chunk.
C3_ChunkingIndependent ==
    (scan.tag # "none" /\ input[1] = "!" /\ prev.kind # "borrowed") =>
        LET whole == ReadBangElement([prev EXCEPT !.cuts = {}])
        IN  /\ scan.tag = whole.tag
            /\ scan.bt = whole.bt
            /\ scan.bytes = whole.bytes
            /\ scan.err = whole.err
            /\ scan.r.buf_position = whole.r.buf_position

\* the quoting state after the bytes s of an element, as the claim tells it
RECURSIVE QuoteState(_)
QuoteState(s) ==
    IF s = <<>> THEN "Elem"
    ELSE LET before == QuoteState(Prefix(s, Len(s) - 1))
             b == s[Len(s)]
         IN  CASE before = "Elem" /\ b = "'" -> "SingleQuoted"
               [] before = "Elem" /\ b = "\"" -> "DoubleQuoted"
               [] before = "SingleQuoted" /\ b = "'" -> "Elem"
               [] before = "DoubleQuoted" /\ b = "\"" -> "Elem"
               [] OTHER -> before

\* the `>` of the input that stand outside every quoted value
ElementEnds ==
    {j \in 1..Len(input) :
        input[j] = ">" /\ QuoteState(Prefix(input, j - 1)) = "Elem"}

\* C7: the element scan ends at the first `>` outside any quoted attribute
\* value; it returns every byte before that `>` and leaves the source and
\* the position just past it.
C7_ElementScan ==
    (scan.tag # "none" /\ input[1] # "!" /\ ElementEnds # {}) =>
        LET j == Min(ElementEnds)
        IN  /\ scan.tag = "Some"
            /\ scan.bytes = Prefix(input, j - 1)
            /\ scan.r.buf_position = j
            /\ scan.r.cursor = j

\* `a'>'>` scanned from chunks that end inside the quoted value
C7_Witness ==
    /\ input = <<"a", "'", ">", "'", ">">>
    /\ prev.kind = "buffered"
    /\ 3 \in prev.cuts
    /\ scan.tag = "Some"
    /\ scan.bytes = <<"a", "'", ">", "'">>

\* the `>` that end a comment: more than 4 bytes from the `!` before them,
\* the last two of these being `--`
CommentEnds ==
    {j \in 1..Len(input) :
        /\ input[j] = ">"
        /\ j - 1 > 4
        /\ SubSeq(input, j - 2, j - 1) = <<"-", "-">>}

\* C8: a comment scan ends at the first `>` that has more than 4 scanned
\* bytes before it, counted from the `!`, and `--` just before it; the
\* range returned keeps the two dashes; without such a `>` the scan fails
\* with UnexpectedEof("Comment").
C8_CommentScan ==
    (scan.tag # "none" /\ Len(input) >= 2 /\ input[1] = "!" /\ input[2] = "-") =>
        IF CommentEnds = {}
        THEN scan.tag = "Err" /\ scan.err = "UnexpectedEof(Comment)"
        ELSE /\ scan.tag = "Some"
             /\ scan.bt = "Comment"
             /\ scan.bytes = Prefix(input, Min(CommentEnds) - 1)

\* the `>` that end a CDATA section: those just after `]]`
CDataEnds ==
    {j \in 1..Len(input) :
        /\ input[j] = ">"
        /\ j > 2
        /\ SubSeq(input, j - 2, j - 1) = <<"]", "]">>}

\* C9: a CDATA scan ends at the first `>` immediately preceded by `]]`; the
\* range returned starts at the `!` and leaves out the `]]` and the `>`;
\* the position is then just past the `>`.
C9_CDataScan ==
    (scan.tag # "none" /\ Len(input) >= 2 /\ input[1] = "!" /\ input[2] = "["
        /\ CDataEnds # {}) =>
        LET j == Min(CDataEnds)
        IN  /\ scan.tag = "Some"
            /\ scan.bt = "CData"
            /\ scan.bytes = Prefix(input, j - 3)
            /\ scan.r.buf_position = j

\* the `>` that end a DOCTYPE: as many `<` as `>` before them
DocTypeEnds ==
    {j \in 1..Len(input) :
        /\ input[j] = ">"
        /\ Cardinality({k \in 1..(j - 1) : input[k] = "<"})
              = Cardinality({k \in 1..(j - 1) : input[k] = ">"})}

\* C10: a DOCTYPE scan ends at the first `>` that has as many `<` as `>`
\* in the content before it, so that a DOCTYPE with nested markup comes
\* back whole; without such a `>` it fails with UnexpectedEof("DOCTYPE").
C10_DocTypeScan ==
    (scan.tag # "none" /\ Len(input) >= 2 /\ input[1] = "!" /\ input[2] = "D") =>
        IF DocTypeEnds = {}
        THEN scan.tag = "Err" /\ scan.err = "UnexpectedEof(DOCTYPE)"
        ELSE /\ scan.tag = "Some"
             /\ scan.bt = "DocType"
             /\ scan.bytes = Prefix(input, Min(DocTypeEnds) - 1)

\* the scan took the construct for a t: it returned one, or it failed for
\* want of the end of one
ClassifiedAs(t) ==
    \/ scan.tag = "Some" /\ scan.bt = t
    \/ scan.tag = "Err" /\ scan.err = BangToErr(t)

\* the byte after the `!` of the input, "" when the input ends there
AfterBang == IF Len(input) >= 2 THEN input[2] ELSE ""

\* C11, as stated: the byte after `<!` classifies the construct, `[` as
\* CData, `-` as Comment, `D` or `d` as DocType; any other byte, and the
\* end of the input right after the `!`, is a malformed-bang error
\* (UnexpectedBang).
C11_EofIsMalformedBang ==
    (scan.tag # "none" /\ input[1] = "!") =>
        CASE AfterBang = "[" -> ClassifiedAs("CData")
          [] AfterBang = "-" -> ClassifiedAs("Comment")
          [] AfterBang \in {"D", "d"} -> ClassifiedAs("DocType")
          [] OTHER -> scan.tag = "Err" /\ scan.err = "UnexpectedBang"

\* C11, amended: the byte after `<!` classifies the construct, `[` as
\* CData, `-` as Comment, `D` or `d` as DocType; any other byte is a
\* malformed-bang error (UnexpectedBang), and the end of the input right
\* after the `!` is an unexpected end of input, UnexpectedEof("Bang").
C11_BangClassification ==
    (scan.tag # "none" /\ input[1] = "!") =>
        CASE AfterBang = "[" -> ClassifiedAs("CData")
          [] AfterBang = "-" -> ClassifiedAs("Comment")
          [] AfterBang \in {"D", "d"} -> ClassifiedAs("DocType")
          [] AfterBang = "" -> scan.tag = "Err" /\ scan.err = "UnexpectedEof(Bang)"
          [] OTHER -> scan.tag = "Err" /\ scan.err = "UnexpectedBang"

\* a scan of the input `!`, which ends right after the `!`
C11_Witness ==
    /\ input = <<"!">>
    /\ scan.tag = "Err"
    /\ scan.err = "UnexpectedEof(Bang)"

----------------------------------------------------------------------------
(* The claims about text events, checked under Spec                        *)

\* the last read was the first read of the reader
FirstRead == prev.kind # "none" /\ prev.tag_state = "Init"

\* the bytes of s before its first `<`
BeforeLt(s) ==
    IF \E j \in 1..Len(s) : s[j] = "<"
    THEN Prefix(s, Min({j \in 1..Len(s) : s[j] = "<"}) - 1)
    ELSE s

\* C12, as stated: the first read of a reader always returns a StartText
\* event carrying the content before the first `<`, also when that
\* content is empty.
C12_AlwaysStartText ==
    (FirstRead /\ input # <<>>) =>
        /\ ev.kind = "StartText"
        /\ cfg.trim_text_start = cfg.trim_text_end =>
                ev.content = Stripped(BeforeLt(Unpadded(input)))
                    \/ ev.content = BeforeLt(Unpadded(input))

\* C12, amended: the first read returns a StartText event, with the
\* non-empty content before the first `<`, only when the input (after the
\* whitespace skipped by trim_text_start) does not begin with `<`; when it
\* begins with `<` no StartText is emitted and the first read returns the
\* result of the markup, and when nothing is left it returns Eof.
C12_StartTextOnlyBeforeMarkup ==
    FirstRead =>
        LET text == Unpadded(input)
        IN  CASE text = <<>> -> ev = Eof
              [] text # <<>> /\ text[1] = "<" ->
                    /\ ev.kind \notin {"StartText", "Text"}
                    /\ MarkupRead
              [] OTHER ->
                    /\ ev.kind = "StartText"
                    /\ ev.content # <<>>
                    /\ ~cfg.trim_text_end => ev.content = BeforeLt(text)
                    /\ cfg.trim_text_end =>
                            ev.content \in {BeforeLt(text), Stripped(BeforeLt(text))}

\* the first read of `<a>...` returns the Start event
C12_Witness ==
    /\ FirstRead
    /\ input = <<"<", "a", ">">>
    /\ ev = Event("Start", <<"a">>, 1)

\* the input that was left before the last read, and the run of text at
\* its head
Rest == Suffix(input, prev.cursor)

TextRun == BeforeLt(Rest)

IsBlank(s) == \A j \in 1..Len(s) : s[j] \in {" ", "\r", "\n", "\t"}

\* the last read began at a text position
TextPositionRead == prev.kind # "none" /\ prev.tag_state \in {"Init", "Closed"}

\* C13: no Text event with empty content is ever emitted; a read at a text
\* position whose next byte (after the whitespace skipped by
\* trim_text_start) is `<` returns the markup's result instead; and when
\* trimming would leave nothing of the text, no Text event is emitted.
C13_NoEmptyText ==
    /\ ev.kind = "Text" => ev.content # <<>>
    /\ (TextPositionRead /\ Unpadded(Rest) # <<>> /\ Head(Unpadded(Rest)) = "<") =>
            ev.kind \notin {"Text", "StartText"}
    /\ (TextPositionRead /\ (cfg.trim_text_start \/ cfg.trim_text_end)
            /\ TextRun # <<>> /\ IsBlank(TextRun)) =>
            ev.kind # "Text"

----------------------------------------------------------------------------
(* The claims about the encoding, checked under SpecEnc                    *)

\* the changes of provenance a read may make
Refinements ==
    { <<"Implicit", "BomDetected">>, <<"BomDetected", "XmlDetected">>,
      <<"Implicit", "XmlDetected">> }

\* C14: the provenance only moves along Implicit -> BomDetected ->
\* XmlDetected (or Implicit -> XmlDetected): a read that changes the
\* encoding or its provenance makes one of these moves, so a reader whose
\* provenance is Explicit or XmlDetected keeps both for good, BomDetected
\* is entered at most once, and a second XML declaration read after one
\* that set the encoding changes nothing.
C14_EncodingProvenance ==
    [][ /\ r.encoding.prov \in {"Explicit", "XmlDetected"} =>
                r'.encoding = r.encoding
        /\ r'.encoding # r.encoding =>
                <<r.encoding.prov, r'.encoding.prov>> \in Refinements ]_vars

\* the read of a second declaration, naming another encoding than the one
\* the first declaration set
C14_Witness ==
    /\ prev.encoding.prov = "XmlDetected"
    /\ ev.kind = "Decl"
    /\ DeclEncoder(ev.content) \notin {"", prev.encoding.enc}
    /\ r.encoding = prev.encoding

\* the encoding of the byte-order mark that s starts with, "" when it
\* starts with none
BomOf(s) ==
    CASE Len(s) >= 2 /\ SubSeq(s, 1, 2) = <<"FE", "FF">> -> "UTF_16BE"
      [] Len(s) >= 2 /\ SubSeq(s, 1, 2) = <<"FF", "FE">> -> "UTF_16LE"
      [] Len(s) >= 3 /\ SubSeq(s, 1, 3) = <<"EF", "BB", "BF">> -> "UTF_8"
      [] OTHER -> ""

\* before any read of a reader over bytes the encoding is UTF-8, and a
\* mark at the head of the input sets the encoding at the first read
DefaultThenBom ==
    /\ (r.kind # "none" /\ ~r.text /\ r.tag_state = "Init") =>
            r.encoding.enc = "UTF_8"
    /\ (FirstRead /\ ~prev.text /\ BomOf(BeforeLt(input)) # "") =>
            /\ ev.kind = "StartText"
            /\ r.encoding.enc = BomOf(BeforeLt(input))

\* the last read, by a reader over bytes, returned a declaration that
\* names a known encoding
KnownDeclRead ==
    /\ prev.kind # "none"
    /\ ~prev.text
    /\ ev.kind = "Decl"
    /\ DeclEncoder(ev.content) # ""

\* C15, as stated: for a reader over bytes the encoding is UTF-8 before
\* any read, becomes the encoding of a byte-order mark at the head of the
\* input when the first event is returned, and becomes the encoding named
\* by a declaration at every read that returns a Decl event naming a known
\* encoding.
C15_EveryDeclSetsEncoding ==
    /\ DefaultThenBom
    /\ KnownDeclRead => r.encoding.enc = DeclEncoder(ev.content)

\* C15, amended: as above, but a declaration sets the encoding only while
\* no earlier declaration has set it; a declaration read after that leaves
\* the encoding as it was.
C15_FirstDeclSetsEncoding ==
    /\ DefaultThenBom
    /\ KnownDeclRead =>
            IF prev.encoding.prov \in {"Implicit", "BomDetected"}
            THEN r.encoding = [prov |-> "XmlDetected", enc |-> DeclEncoder(ev.content)]
            ELSE r.encoding = prev.encoding

\* UTF-16LE mark, then `encoding='windows-1251'`: at the second read the
\* encoding goes from the mark's to the declared one
C15_Witness ==
    /\ SubSeq(input, 1, 2) = <<"FF", "FE">>
    /\ prev.encoding = [prov |-> "BomDetected", enc |-> "UTF_16LE"]
    /\ ev.kind = "Decl"
    /\ r.encoding = [prov |-> "XmlDetected", enc |-> "WINDOWS_1251"]

\* C16: a reader built over a text string, by whichever constructor, has
\* the provenance Explicit and the encoding UTF-8 from its construction
\* on, whatever marks and declarations it reads.
C16_StrReaderLocked ==
    r.text => r.encoding = [prov |-> "Explicit", enc |-> "UTF_8"]

\* the comment that read_bang_element consumed: `!--`, a body, `-->`
CommentRead ==
    /\ ev # NoEvent
    /\ scan.bt = "Comment"
    /\ StartsWith(input, <<"!", "-", "-">>)

CommentBody == SubSeq(input, 4, scan.r.cursor - 3)

\* the places (1-based, in the input) of the dashes of the body that a dash
\* follows, the first dash of the terminator included
DoubleDashes ==
    {k \in 4..(scan.r.cursor - 3) : input[k] = "-" /\ input[k + 1] = "-"}

C18_PositionAtDoubleDash ==
    (CommentRead /\ ev = Error("UnexpectedToken(--)", <<>>, <<>>)) =>
        /\ r.buf_position = Min(DoubleDashes) - 1
        /\ r.buf_position < scan.r.cursor - 1


\* s without its leading and trailing whitespace
TrimBoth(s) ==
    LET keep == {j \in 1..Len(s) : s[j] \notin {" ", "\r", "\n", "\t"}}
    IN  IF keep = {} THEN <<>> ELSE SubSeq(s, Min(keep), Max(keep))

\* C19: with trim_text_start and trim_text_end both set, the content of a
\* Text or StartText event neither starts nor ends with a whitespace byte; a
\* run of text that is only whitespace produces no text event; and a run
\* with other bytes produces a text event with the trimmed run
C19_TrimText ==
    (cfg.trim_text_start /\ cfg.trim_text_end) =>
        /\ ev.kind \in {"Text", "StartText"} =>
                /\ ev.content # <<>>
                /\ ev.content[1] \notin {" ", "\r", "\n", "\t"}
                /\ ev.content[Len(ev.content)] \notin {" ", "\r", "\n", "\t"}
        /\ (TextPositionRead /\ TextRun # <<>> /\ IsBlank(TextRun)) =>
                ev.kind \notin {"Text", "StartText"}
        /\ (TextPositionRead /\ ~IsBlank(TextRun)) =>
                /\ ev.kind \in {"Text", "StartText"}
                /\ ev.content = TrimBoth(TextRun)

\* the text ` x\n` between two tags is returned as `x`
C19_Witness ==
    /\ cfg.trim_text_start
    /\ cfg.trim_text_end
    /\ TextPositionRead
    /\ TextRun = <<" ", "x", "\n">>
    /\ ev = Event("Text", <<"x">>, 0)

\* the whitespace between two tags produces no event of its own
C19_WitnessBlank ==
    /\ cfg.trim_text_start
    /\ cfg.trim_text_end
    /\ TextPositionRead
    /\ TextRun = <<" ", "\t">>
    /\ ev = Event("Start", <<"b">>, 1)


\* C20: with trim_text_end, whatever trim_text_start is, no Text event has
\* content whose last byte is a whitespace byte
C20_NoTrailingWhitespace ==
    (cfg.trim_text_end /\ ev.kind = "Text" /\ ev.content # <<>>) =>
        ev.content[Len(ev.content)] \notin {" ", "\r", "\n", "\t"}


\* the name of the end tag that was read, as it stands in the input
RawEndName ==
    IF Markup[Len(Markup)] = ">" THEN SubSeq(Markup, 2, Len(Markup) - 1)
    ELSE Suffix(Markup, 1)

\* C21: an end tag whose name is followed by whitespace and closes the open
\* element: with trim_markup_names_in_closing_tags the whitespace is stripped
\* and the End event carries the bare name; without it and with
\* check_end_names the read fails with an end-tag mismatch
C21_TrimClosingNames ==
    /\ (EndTagRead /\ cfg.trim_markup_names_in_closing_tags /\ ev.kind = "End"
            /\ Stripped(RawEndName) # <<>>) =>
            ev.content = Stripped(RawEndName)
    /\ (EndTagRead /\ Stack(prev) # <<>>) =>
        LET top == Stack(prev)[Len(Stack(prev))]
            name == Stripped(RawEndName)
        IN  (RawEndName # name /\ name = top) =>
                /\ cfg.trim_markup_names_in_closing_tags =>
                        /\ ev = Event("End", name, Len(name))
                        /\ Stack(r) = Prefix(Stack(prev), Len(Stack(prev)) - 1)
                /\ (~cfg.trim_markup_names_in_closing_tags /\ cfg.check_end_names) =>
                        ev = Error("EndEventMismatch", top, RawEndName)

\* `<b></b >` read with the names trimmed: Start("b"), then End("b")
C21_Witness ==
    /\ input = <<"<", "b", ">", "<", "/", "b", " ", ">">>
    /\ cfg.trim_markup_names_in_closing_tags
    /\ cfg.check_end_names
    /\ pev = Event("Start", <<"b">>, 1)
    /\ ev = Event("End", <<"b">>, 1)

\* the same input with the names untrimmed: Start("b"), then the mismatch
C21_WitnessUntrimmed ==
    /\ input = <<"<", "b", ">", "<", "/", "b", " ", ">">>
    /\ ~cfg.trim_markup_names_in_closing_tags
    /\ cfg.check_end_names
    /\ pev = Event("Start", <<"b">>, 1)
    /\ ev = Error("EndEventMismatch", <<"b">>, <<"b", " ">>)


----------------------------------------------------------------------------
(* The claims about read_to_end and read_text_into, checked under SpecSkip *)

\* the results of n successive read_event calls that begin with reader rd
RECURSIVE EventsFrom(_, _)
EventsFrom(rd, n) ==
    IF n = 0 THEN <<>>
    ELSE LET res == read_event_impl(rd)
         IN  <<res>> \o EventsFrom(res.r, n - 1)

\* the last step was a call of op, made right after a Start event
Called(op) == scan.tag = op /\ scan.r = prev

\* the reads that the caller would have made from where the call began:
\* enough of them to reach the end of the input
ReadsAhead == EventsFrom(prev, Len(input) - prev.cursor + 2)

IsNamed(e, kind, name) == e.kind = kind /\ Prefix(e.content, e.name_len) = name

\* the number of Start events named name less the number of End events
\* named name, among the first k events of E
Nesting(E, k, name) ==
    Cardinality({j \in 1..k : IsNamed(E[j].ev, "Start", name)})
        - Cardinality({j \in 1..k : IsNamed(E[j].ev, "End", name)})

\* the first read among E that ends a read_to_end(name): an End named name
\* with as many Start as End events named name before it, Eof, or an error
StopOf(E, name) ==
    Min({k \in 1..Len(E) :
            \/ E[k].ev.kind \in {"Eof", "Err"}
            \/ IsNamed(E[k].ev, "End", name) /\ Nesting(E, k - 1, name) = 0})

\* C22: read_to_end(name) called right after Start(name) reads up to and
\* including the End named name that has as many Start as End events of that
\* name before it, returns Ok and leaves the reader as that read left it;
\* if Eof comes first it returns UnexpectedEof with the name, and an error
\* of a read is returned as it is
C22_ReadToEnd ==
    Called("read_to_end") =>
        LET last == ReadsAhead[StopOf(ReadsAhead, scan.bytes)]
        IN  /\ r = last.r
            /\ last.ev.kind = "End" => ev = Unit
            /\ last.ev.kind = "Eof" =>
                    ev = Error("UnexpectedEof(</end>)", scan.bytes, <<>>)
            /\ last.ev.kind = "Err" => ev = last.ev

\* after the outer Start of `<a><a></a></a>x`, read_to_end passes the inner
\* element and stops behind the outer end tag
C22_Witness ==
    /\ Called("read_to_end")
    /\ input = <<"<", "a", ">", "<", "a", ">", "<", "/", "a", ">",
                 "<", "/", "a", ">", "x">>
    /\ prev.cursor = 3
    /\ ev = Unit
    /\ r.cursor = 14


\* C23: read_text_into(end) called right after a Start event: if the next
\* event is a Text event it returns that text, having read through the End
\* that matches end; if the next event is an End event it returns the empty
\* string; if it is Eof it fails with UnexpectedEof("Text"), and for every
\* other event with TextNotFound
C23_ReadText ==
    Called("read_text") =>
        LET first == ReadsAhead[1]
            rest == EventsFrom(first.r, Len(input) - first.r.cursor + 2)
        IN  CASE first.ev.kind = "Text" ->
                    /\ ev = Event("String", unescape_and_decode(first.ev.content), 0)
                    /\ rest[StopOf(rest, scan.bytes)].ev.kind = "End"
                    /\ r = rest[StopOf(rest, scan.bytes)].r
              [] first.ev.kind = "End" -> ev = Event("String", <<>>, 0)
              [] first.ev.kind = "Eof" -> ev = Error("UnexpectedEof(Text)", <<>>, <<>>)
              [] first.ev.kind = "Err" -> ev = first.ev
              [] OTHER -> ev = Error("TextNotFound", <<>>, <<>>)


----------------------------------------------------------------------------
(* The claim about the namespace scopes, checked under SpecNs              *)

\* the tags of s are well nested, depth elements being open before s
RECURSIVE NestingOk(_, _)
NestingOk(s, depth) ==
    IF s = <<>> THEN depth = 0
    ELSE IF StartsWith(s, <<"<", "/", "a", ">">>)
         THEN depth > 0 /\ NestingOk(Suffix(s, 4), depth - 1)
    ELSE IF StartsWith(s, <<"<", "a", "/", ">">>)
         THEN NestingOk(Suffix(s, 4), depth)
    ELSE IF StartsWith(s, <<"<", "a", ">">>)
         THEN NestingOk(Suffix(s, 3), depth + 1)
    ELSE NestingOk(Suffix(s, 1), depth)

WellNested == NestingOk(input, 0)

\* the last call returned an event of one of kinds, and no later read
\* returns one
WasLast(kinds) ==
    /\ pev.kind \in kinds
    /\ \A k \in 1..(Len(input) - prev.cursor + 2) :
            EventsFrom(prev, Len(input) - prev.cursor + 2)[k].ev.kind \notin kinds

\* a call pops once if pending_pop was set, pushes once if it returns Start
\* or Empty, and sets pending_pop exactly if it returns Empty or End
NsCallStep ==
    /\ r'.ns_scopes = r.ns_scopes - (IF r.pending_pop THEN 1 ELSE 0)
                        + (IF ev'.kind \in {"Start", "Empty"} THEN 1 ELSE 0)
    /\ r'.pending_pop = (ev'.kind \in {"Empty", "End"})

\* C24, as stated: on well-nested input the pops never exceed the pushes,
\* and after the call that follows the last End every pushed scope has been
\* popped
C24_PoppedAfterLastEnd ==
    WellNested =>
        /\ r.ns_scopes >= 0
        /\ WasLast({"End"}) => r.ns_scopes = 0

\* C24, amended: every call pops the pending scope once before it reads,
\* pushes a scope for a Start and for an Empty event and asks for a pop after
\* an Empty and after an End event; on well-nested input the pops never
\* exceed the pushes, a pending scope is still on the resolver, and after the
\* call that follows the last End or Empty event every pushed scope has been
\* popped
C24_ScopesBalanced ==
    /\ [][NsCallStep]_vars
    /\ [](WellNested =>
            /\ r.ns_scopes >= 0
            /\ r.pending_pop => r.ns_scopes >= 1
            /\ WasLast({"End", "Empty"}) =>
                    r.ns_scopes = 0 /\ ~r.pending_pop)

\* `<a><a/></a>`: the call after the last End has popped the last scope
C24_Witness ==
    /\ input = <<"<", "a", ">", "<", "a", "/", ">", "<", "/", "a", ">">>
    /\ ~cfg.expand_empty_elements
    /\ pev = Event("End", <<"a">>, 1)
    /\ prev.pending_pop
    /\ prev.ns_scopes = 1
    /\ ev = Eof
    /\ r.ns_scopes = 0


----------------------------------------------------------------------------
(* The claims about the position, checked under Spec and SpecScan          *)

\* C25: buffer_position is the raw counter less one exactly in the state
\* Opened; and whenever a read leaves the state Opened, the last byte taken
\* from the input is a `<` and buffer_position is the offset of that `<`
C25_PositionOfLt ==
    /\ buffer_position(r) =
            r.buf_position - (IF r.tag_state = "Opened" THEN 1 ELSE 0)
    /\ (r.kind # "none" /\ r.tag_state = "Opened") =>
            /\ r.cursor > 0
            /\ input[r.cursor] = "<"
            /\ buffer_position(r) = r.cursor - 1


\* C26: read_bang_element and read_element, buffered or borrowed, on every
\* exit path advance the position by exactly the number of bytes they took
\* from the source
C26_PositionCountsConsumed ==
    scan.tag # "none" =>
        scan.r.buf_position - prev.buf_position = scan.r.cursor - prev.cursor


\* the bang construct of the input has no `>` that ends a construct of its
\* type
Unterminated ==
    CASE AfterBang = "[" -> CDataEnds = {}
      [] AfterBang = "-" -> CommentEnds = {}
      [] AfterBang \in {"D", "d"} -> DocTypeEnds = {}
      [] OTHER -> FALSE

\* C27: read_bang_element on a bang construct that the input does not
\* terminate fails with UnexpectedEof of the classified type, "CData",
\* "Comment" or "DOCTYPE", and leaves the position counter as it was,
\* whether the source is buffered or borrowed
C27_UnterminatedBang ==
    (scan.tag # "none" /\ input[1] = "!" /\ Unterminated) =>
        /\ scan.tag = "Err"
        /\ scan.err = (CASE AfterBang = "[" -> "UnexpectedEof(CData)"
                         [] AfterBang = "-" -> "UnexpectedEof(Comment)"
                         [] OTHER -> "UnexpectedEof(DOCTYPE)")
        /\ scan.r.buf_position = prev.buf_position

\* ---- C28 ----

IoOps ==
    {"read_bytes_until", "read_bang_element", "read_element",
     "skip_whitespace", "peek_one"}

ScanOf(op, rd) ==
    CASE op = "read_bytes_until" ->
            IF rd.kind = "async" THEN AsyncReadBytesUntil(rd, "<") ELSE BufReadBytesUntil(rd, "<")
      [] op = "read_bang_element" ->
            IF rd.kind = "async" THEN AsyncReadBangElement(rd) ELSE BufReadBangElement(rd)
      [] op = "read_element" ->
            IF rd.kind = "async" THEN AsyncReadElement(rd) ELSE BufReadElement(rd)
      [] op = "skip_whitespace" ->
            IF rd.kind = "async" THEN AsyncSkipWhitespaceLoop(rd) ELSE BufSkipWhitespaceLoop(rd)
      [] op = "peek_one" ->
            IF rd.kind = "async" THEN AsyncPeekOneLoop(rd) ELSE BufPeekOneLoop(rd)

\* the same range (or none), error, position and cursor
SameScan(a, b) ==
    /\ a.tag = b.tag
    /\ a.bytes = b.bytes
    /\ a.bt = b.bt
    /\ a.err = b.err
    /\ a.r.cursor = b.r.cursor
    /\ a.r.buf_position = b.r.buf_position

Uninterrupted(rd) == [rd EXCEPT !.intr = <<>>]

Unbroken(rd) == [rd EXCEPT !.intr = <<>>, !.broken = -1]

\* the cursor of the first fill_buf of a scan
FirstAsk(op, rd) ==
    IF op = "read_bang_element" THEN rd.cursor + 1 ELSE rd.cursor

\* C28: a scan of a stream that answers Err(Interrupted) returns what the
\* scan of the same stream without these answers returns: the same range,
\* position and cursor. Another I/O error ends the scan with Error::Io at
\* the cursor where the stream failed; a scan that does not end with
\* Error::Io returns what the scan of the stream that never fails returns.
C28_InterruptedRetried ==
    (ev.kind \in IoOps) =>
        /\ SameScan(scan, ScanOf(ev.kind, Uninterrupted(prev)))
        /\ (prev.broken = FirstAsk(ev.kind, prev))
              => (scan.tag = "Err" /\ scan.err = "Io")
        /\ (scan.err = "Io")
              => (scan.tag = "Err" /\ scan.r.cursor = prev.broken)
        /\ (scan.err # "Io")
              => SameScan(scan, ScanOf(ev.kind, Unbroken(prev)))

\* read_element was interrupted twice at one cursor after it had
\* accumulated bytes, and returned a range that spans the interruption
C28_Witness ==
    /\ ev.kind = "read_element"
    /\ scan.tag = "Some"
    /\ Len(prev.intr) = 2
    /\ prev.intr[1] = prev.intr[2]
    /\ prev.intr[1] > prev.cursor
    /\ scan.r.intr = <<>>
    /\ Len(scan.bytes) > prev.intr[1] - prev.cursor

\* a scan that had consumed bytes ended with Error::Io
C28_WitnessIo ==
    /\ ev.kind \in IoOps
    /\ scan.err = "Io"
    /\ scan.r.cursor > prev.cursor
    /\ prev.intr # <<>>
    /\ scan.r.intr = <<>>

\* ---- C29 ----

\* the parser of a reader: tag state, position, stack and encoding
ParserOf(rd) ==
    [tag_state |-> rd.tag_state, buf_position |-> rd.buf_position,
     opened_buffer |-> rd.opened_buffer, opened_starts |-> rd.opened_starts,
     encoding |-> rd.encoding]

\* C29: read in step over the same chunks with the same configuration, the
\* reader over an AsyncBufRead returns after every read the result the
\* reader over a BufRead returns, and the two have the same tag state,
\* position, stack of open names and encoding, and have consumed the same
\* bytes.
C29_AsyncMirrorsSync ==
    /\ ev2 = ev
    /\ ParserOf(r2) = ParserOf(r)
    /\ r2.cursor = r.cursor

\* both readers returned a text that began in one chunk and ended in a
\* later one, with the start trimmed
C29_Witness ==
    /\ ev.kind = "Text"
    /\ ev2 = ev
    /\ cfg.trim_text_start
    /\ \E k \in prev2.cuts : prev2.cursor < k /\ k < r2.cursor
    /\ r2.kind = "async"
    /\ r.kind = "buffered"

\* both readers ended with the same error
C29_WitnessError ==
    /\ ev.kind = "Err"
    /\ ev2 = ev
    /\ r2.tag_state = "Exit"
    /\ r2.cuts # {}

\* ---- C30 ----

\* what the first read of a document that begins with `<?` scans: the bytes
\* after the `<` up to the first `>`, or up to the end of the input
Scanned ==
    LET rest == SubSeq(input, 2, Len(input))
        j == Memchr(">", rest)
    IN  IF j > 0 THEN Prefix(rest, j - 1) ELSE rest

\* the content begins with `xml` and a whitespace byte
BeginsXmlSpace(c) ==
    /\ Len(c) >= 5
    /\ SubSeq(c, 2, 4) = <<"x", "m", "l">>
    /\ c[5] \in {" ", "\t", "\r", "\n"}

\* C30: the first read of a document that begins with `<?` fails with
\* UnexpectedEof("XmlDecl") unless the scanned content ends with `?` and is
\* longer than two bytes; otherwise it returns the content between the
\* question marks, as Decl when it begins with `xml` and a whitespace byte
\* and as PI when it does not.
C30_QuestionMark ==
    FirstRead =>
        LET c == Scanned
        IN  IF Len(c) > 2 /\ c[Len(c)] = "?"
            THEN /\ ev.kind = (IF BeginsXmlSpace(c) THEN "Decl" ELSE "PI")
                 /\ ev.content = SubSeq(c, 2, Len(c) - 1)
            ELSE ev = Error("UnexpectedEof(XmlDecl)", <<>>, <<>>)

\* `<?xml ?>` was read as a declaration
C30_Witness ==
    /\ FirstRead
    /\ Scanned = <<"?", "x", "m", "l", " ", "?">>
    /\ ev.kind = "Decl"
    /\ ev.content = <<"x", "m", "l", " ">>

\* `<?xml?>` was read as a processing instruction
C30_WitnessPI ==
    /\ FirstRead
    /\ Scanned = <<"?", "x", "m", "l", "?">>
    /\ ev.kind = "PI"

\* `<??>` failed
C30_WitnessEof ==
    /\ FirstRead
    /\ Scanned = <<"?", "?">>
    /\ ev.kind = "Err"

\* ---- C31 ----

\* the read that returned ev scanned a tag that ends with `/`: the last
\* byte consumed is the `>` after a `/`, or a `/` at the end of the input
SelfClosingRead ==
    /\ r.cursor >= 2
    /\ IF input[r.cursor] = ">" THEN input[r.cursor - 1] = "/"
       ELSE input[r.cursor] = "/"

\* C31: between reads the tag state is Init exactly before the first read;
\* it is Opened after StartText or Text; Closed after Decl, DocType, PI,
\* Comment, CData, Start, Empty or End, but Empty after the Start of a
\* self-closing tag when expand_empty_elements is set; the read made in
\* Empty returns End and leaves Closed; Empty does not occur when
\* expand_empty_elements is not set; Eof and errors leave Exit.
C31_TagStateDiagram ==
    /\ (r.tag_state = "Init") <=> (prev = NoReader)
    /\ (r.tag_state = "Empty") => cfg.expand_empty_elements
    /\ (prev # NoReader) =>
        /\ (ev.kind \in {"StartText", "Text"}) => r.tag_state = "Opened"
        /\ (ev.kind \in {"Decl", "DocType", "PI", "Comment", "CData",
                         "Empty", "End"}) => r.tag_state = "Closed"
        /\ (ev.kind = "Start") =>
              r.tag_state = (IF cfg.expand_empty_elements /\ SelfClosingRead
                             THEN "Empty" ELSE "Closed")
        /\ (ev.kind \in {"Eof", "Err"}) => r.tag_state = "Exit"
        /\ (prev.tag_state = "Empty") =>
              (ev.kind = "End" /\ r.tag_state = "Closed")
        /\ ev.kind \in {"StartText", "Text", "Decl", "DocType", "PI", "Comment",
                        "CData", "Start", "Empty", "End", "Eof", "Err"}

\* the read made in the state Empty returned End and left Closed
C31_Witness ==
    /\ prev # NoReader
    /\ prev.tag_state = "Empty"
    /\ ev.kind = "End"
    /\ r.tag_state = "Closed"
    /\ cfg.expand_empty_elements

\* ---- C32 ----

\* the scan a returned what the scan b returned and left the source and
\* the position where b left them
SameElementScan(a, b) ==
    /\ a.tag = b.tag
    /\ a.bytes = b.bytes
    /\ a.err = b.err
    /\ a.r.buf_position = b.r.buf_position
    /\ a.r.cursor = b.r.cursor

\* C32: read_element on a streaming source, sync or async, returns for every
\* split of the input into fill_buf chunks the range, the position and the
\* source it returns when the whole input arrives in one chunk.
C32_ElementChunkingIndependent ==
    (scan.tag # "none" /\ input[1] # "!" /\ prev.kind # "borrowed") =>
        LET whole == [prev EXCEPT !.cuts = {}]
        IN  /\ SameElementScan(scan, ReadElement(whole))
            /\ SameElementScan(BufReadElement(prev), BufReadElement(whole))
            /\ SameElementScan(AsyncReadElement(prev), AsyncReadElement(whole))
            /\ SameElementScan(AsyncReadElement(whole), BufReadElement(whole))

\* an element whose quoted value holds a `>` was scanned from chunks that
\* end inside the value, and the scan went on to the `>` after the value
C32_Witness ==
    /\ input = <<"a", "\"", ">", "\"", ">">>
    /\ prev.kind = "async"
    /\ prev.cuts = {2, 3}
    /\ scan.tag = "Some"
    /\ scan.bytes = <<"a", "\"", ">", "\"">>
    /\ scan.r.buf_position = 5

\* ---- C33 ----

\* the encoding of the declaration-opening pattern that s starts with, ""
\* when it starts with none
PatternOf(s) ==
    CASE Len(s) >= 4 /\ SubSeq(s, 1, 4) = <<"00", "<", "00", "?">> -> "UTF_16BE"
      [] Len(s) >= 4 /\ SubSeq(s, 1, 4) = <<"<", "00", "?", "00">> -> "UTF_16LE"
      [] Len(s) >= 4 /\ SubSeq(s, 1, 4) = <<"<", "?", "x", "m">> -> "UTF_8"
      [] OTHER -> ""

\* C33: the first read of a reader over bytes whose input begins with a
\* declaration-opening pattern leaves the provenance BomDetected with the
\* encoding of the pattern, unless the declaration read by the same read
\* has named an encoding (XmlDetected).
C33_PatternDetected ==
    (FirstRead /\ ~prev.text /\ PatternOf(input) # "") =>
        \/ r.encoding = [prov |-> "BomDetected", enc |-> PatternOf(input)]
        \/ r.encoding.prov = "XmlDetected"

\* ---- C34 ----

\* C34: in the state Empty the stack of open names is not empty, its top
\* offset lies within opened_buffer and its top entry is the name of the
\* Start event just returned; the read made in the state Empty returns End
\* with that name and takes the entry off the stack.
C34_EmptyHasName ==
    /\ (r.tag_state = "Empty") =>
        /\ r.opened_starts # <<>>
        /\ r.opened_starts[Len(r.opened_starts)] <= Len(r.opened_buffer)
        /\ ev.kind = "Start"
        /\ Stack(r)[Len(Stack(r))] = EventName(ev)
    /\ (prev # NoReader /\ prev.tag_state = "Empty") =>
        /\ ev.kind = "End"
        /\ ev.content = EventName(pev)
        /\ Len(r.opened_starts) = Len(prev.opened_starts) - 1

\* the Start of `<b c/>` was returned with check_end_names off: the stack
\* holds the name b alone
C34_Witness ==
    /\ r.tag_state = "Empty"
    /\ ~cfg.check_end_names
    /\ ev.kind = "Start"
    /\ ev.content = <<"b", " ", "c">>
    /\ Stack(r) = << <<"b">> >>

\* ---- C35 ----

\* read_bang was called on the range that read_bang_element returned
BangRead == scan.tag = "Some" /\ ev # NoEvent

\* C35: read_bang never panics on its DOCTYPE assertion, and the ranges it
\* is given are long enough for its slices: a comment that begins with
\* `!--` has at least the five bytes of `buf[3..len - 2]`, a CDATA section
\* or DOCTYPE that passes the prefix check the eight bytes of `buf[8..]`.
C35_DocTypeAssertion ==
    BangRead =>
        /\ ev.kind # "Panic"
        /\ (scan.bt = "Comment" /\ StartsWith(scan.bytes, <<"!", "-", "-">>))
              => Len(scan.bytes) >= 5
        /\ (ev.kind \in {"CData", "DocType"}) => Len(scan.bytes) >= 8

\* the index expressions alone
C35_SlicesInBounds ==
    BangRead =>
        /\ (scan.bt = "Comment" /\ StartsWith(scan.bytes, <<"!", "-", "-">>))
              => Len(scan.bytes) >= 5
        /\ (ev.kind \in {"CData", "DocType"}) => Len(scan.bytes) >= 8

\* ---- C36 ----

\* the last read began with the source exhausted and no End to synthesise
ReadAtEnd ==
    /\ prev # NoReader
    /\ prev.cursor = Len(input)
    /\ prev.tag_state # "Empty"

\* C36: a read made at the end of the input returns Eof, however many
\* elements are open; every read that returns Eof leaves the stack of open
\* names as it was; and EndEventMismatch, the only error about the stack, is
\* returned by reads of an end tag alone.
C36_EofWithOpenElements ==
    /\ ReadAtEnd => ev = Eof
    /\ (prev # NoReader /\ ev = Eof) => SameStack(r, prev)
    /\ (ev.kind = "Err" /\ ev.err = "EndEventMismatch") => EndTagRead

\* `<a>` with check_end_names: the read at the end of the input returned
\* Eof with a still open
C36_Witness ==
    /\ input = <<"<", "a", ">">>
    /\ cfg.check_end_names
    /\ ReadAtEnd
    /\ prev.tag_state = "Closed"
    /\ ev = Eof
    /\ Stack(r) = << <<"a">> >>

----------------------------------------------------------------------------
(* C37: an end tag or a processing instruction that the end of the input   *)
(* cuts off before its closing `>`                                         *)

\* the last read was a read of `</...` or `<?...` that reached the end of
\* the input without meeting its `>`
CutOffRead ==
    /\ MarkupRead
    /\ Markup # <<>>
    /\ Markup[1] \in {"/", "?"}
    /\ Markup[Len(Markup)] # ">"

\* the bytes between `<?` and `?` make a processing instruction
CutOffPi == Len(Markup) > 2 /\ Markup[Len(Markup)] = "?"

\* C37: a read of an end tag or of a processing instruction that lacks only
\* its closing `>` at the end of the input takes the bytes up to the end of
\* the input and returns what it returns with the `>` in place: for `</name`
\* an End event (with check_end_names, the name mismatch when there is one),
\* for `<?content?` a PI or Decl event holding the content; the lack of `>`
\* is never the error, in a buffered and in a borrowed source alike, and the
\* read after it returns Eof.
C37_CutOffMarkup ==
    /\ CutOffRead =>
          /\ r.cursor = Len(input)
          /\ ev.kind # "Eof"
          /\ Markup[1] = "/" =>
                /\ \/ ev.kind = "End"
                   \/ cfg.check_end_names /\ ev.err = "EndEventMismatch"
                /\ ev.kind = "End" => StartsWith(Suffix(Markup, 1), ev.content)
                /\ ev.kind = "End" => r.tag_state = "Closed"
          /\ (Markup[1] = "?" /\ CutOffPi) =>
                /\ ev.kind \in {"PI", "Decl"}
                /\ ev.content = SubSeq(Markup, 2, Len(Markup) - 1)
                /\ r.tag_state = "Closed"
    /\ ( /\ prev.kind # "none"
         /\ pev.kind \in {"End", "PI", "Decl"}
         /\ prev.cursor = Len(input)
         /\ input[Len(input)] # ">" ) => ev.kind = "Eof"

\* `<a></a` has been read to its End("a") by a reader that checks end names
C37_Witness ==
    /\ CutOffRead
    /\ input = <<"<", "a", ">", "<", "/", "a">>
    /\ cfg.check_end_names
    /\ ev = Event("End", <<"a">>, 1)

\* `<?p?` has been read to its PI by a buffered reader
C37_WitnessPI ==
    /\ CutOffRead
    /\ input = <<"<", "?", "p", "?">>
    /\ r.kind = "buffered"
    /\ ev.kind = "PI"
    /\ ev.content = <<"p">>

\* the read after the cut-off end tag has returned Eof
C37_WitnessEof ==
    /\ input = <<"<", "a", ">", "<", "/", "a">>
    /\ pev.kind = "End"
    /\ ev.kind = "Eof"

----------------------------------------------------------------------------
(* C38: every read ends, and repeated reads reach Eof or an error          *)

\* the last read returned an event other than Eof and no error
EventRead == prev.kind # "none" /\ ev.kind \notin {"Eof", "Err", "none"}

\* the last read was the synthetic End of an expanded empty element
SyntheticEnd ==
    /\ prev.tag_state = "Empty"
    /\ ev.kind = "End"
    /\ r.cursor = prev.cursor
    /\ r.tag_state = "Closed"

\* the reader that read_until_open hands to its call of read_event_impl
\* is in the state Opened, so that call runs read_until_close and calls
\* read_event_impl no further
OneLevel ==
    r.tag_state \in {"Init", "Closed"} =>
        LET u == IF r.kind = "async"
                 THEN read_until_open_async(r, r.tag_state = "Init")
                 ELSE read_until_open(r, r.tag_state = "Init")
        IN  u.again => u.r.tag_state = "Opened"

\* C38: on a finite input read from a stream that answers Err(Interrupted)
\* finitely often every read ends; a read that returns an event other than
\* Eof and no error takes at least one byte from the source, or is the one
\* synthetic End after an expanded empty element; read_until_open calls
\* read_event_impl in the state Opened, so the recursion is one level deep;
\* and repeated reads eventually return Eof or an error.
C38_ReadsTerminate ==
    /\ [](EventRead => (r.cursor > prev.cursor \/ SyntheticEnd))
    /\ [](OneLevel)
    /\ [](r.cursor <= Len(input))
    /\ <>(ev.kind \in {"Eof", "Err"})

\* a read over an interrupted stream has returned the synthetic End
C38_Witness ==
    /\ EventRead
    /\ SyntheticEnd
    /\ prev2.kind # "none"
    /\ Len(prev2.intr) = MaxIntr
    /\ r.intr = <<>>

\* the reads of `<a><b/>x` have reached Eof
C38_WitnessEof ==
    /\ input = <<"<", "a", ">", "<", "b", "/", ">", "x">>
    /\ cfg.expand_empty_elements
    /\ ev.kind = "Eof"
    /\ pev.kind = "Text"

----------------------------------------------------------------------------
(* C39: the subtractions on the position counter                           *)

\* the last read returned the error err
ErrorRead(err) == prev.kind # "none" /\ ev.kind = "Err" /\ ev.err = err

\* the bytes of the markup the last read scanned, without the closing `>`
\* when there is one: the buffer handed to the parser
MarkupBuf ==
    IF Markup # <<>> /\ Markup[Len(Markup)] = ">"
    THEN Prefix(Markup, Len(Markup) - 1)
    ELSE Markup

\* what the counter held when the parser was called in the last read
PositionScanned == prev.buf_position + Len(Consumed)

\* C39: no subtraction on the position counter goes below zero, in any
\* sequence of reads: the counter is at least 1 whenever the state is Opened
\* between reads (`buf_position - 1` of buffer_position); an end-tag mismatch
\* leaves the counter it found less the length of the tag's bytes, and a
\* malformed `<?` likewise, neither below zero; the comment check adds a
\* `len - p` that is not negative; and over a read that returns an event
\* and no error buffer_position() does not decrease.
C39_PositionSubtractions ==
    /\ r.buf_position >= 0
    /\ r.tag_state = "Opened" => r.buf_position >= 1
    /\ (ErrorRead("EndEventMismatch") \/ ErrorRead("UnexpectedEof(XmlDecl)")) =>
          /\ PositionScanned >= Len(MarkupBuf)
          /\ r.buf_position = PositionScanned - Len(MarkupBuf)
    /\ ErrorRead("UnexpectedToken(--)") =>
          /\ r.buf_position >= PositionScanned
          /\ r.buf_position <= PositionScanned + Len(MarkupBuf)
    /\ (prev.kind # "none" /\ ev.kind # "Err") =>
          buffer_position(r) >= buffer_position(prev)

\* `</a>` at the start of a document has been read to its mismatch error:
\* four bytes were counted and the two of `/a` taken back
C39_Witness ==
    /\ ErrorRead("EndEventMismatch")
    /\ prev.buf_position = 0
    /\ MarkupBuf = <<"/", "a">>
    /\ r.buf_position = 2

\* a text that ends with the input has left the state Opened
C39_WitnessOpened ==
    /\ r.tag_state = "Opened"
    /\ r.buf_position = 1
    /\ r.cursor = Len(input)

\* the comment check has added to the counter
C39_WitnessComment ==
    /\ ErrorRead("UnexpectedToken(--)")
    /\ r.buf_position > PositionScanned

\* `<?>` has been read to its error
C39_WitnessDecl ==
    /\ ErrorRead("UnexpectedEof(XmlDecl)")
    /\ MarkupBuf = <<"?">>

----------------------------------------------------------------------------
(* C40: the open-element stack against the events returned                 *)

\* the names of a stack, one after the other
RECURSIVE Flatten(_)
Flatten(names) ==
    IF names = <<>> THEN <<>> ELSE Head(names) \o Flatten(Tail(names))

\* C40: with check_end_names, after reads that returned no error, the depth
\* of the open-element stack is the number of Start events returned less
\* the number of End events returned, which is never negative; the entries
\* of the stack are the names of the elements the events left open, outermost
\* first; opened_starts is a non-decreasing list of offsets into
\* opened_buffer, and the names they cut fill the buffer up to its end.
C40_StackMatchesEvents ==
    (cfg.check_end_names /\ ~scan.failed) =>
        /\ scan.starts >= scan.ends
        /\ Len(r.opened_starts) = scan.starts - scan.ends
        /\ Stack(r) = scan.open
        /\ \A i \in 1..Len(r.opened_starts) :
              /\ r.opened_starts[i] \in 0..Len(r.opened_buffer)
              /\ i > 1 => r.opened_starts[i - 1] <= r.opened_starts[i]
        /\ Flatten(Stack(r)) = r.opened_buffer

\* `<a><a><a>` and an End have been read: two elements are open
C40_Witness ==
    /\ cfg.check_end_names
    /\ ~scan.failed
    /\ scan.starts = 3
    /\ scan.ends = 1
    /\ Stack(r) = <<<<"a">>, <<"a">>>>
    /\ ev.kind = "End"

\* the stack holds the expanded empty element `c` inside `a`
C40_WitnessEmpty ==
    /\ ~scan.failed
    /\ r.tag_state = "Empty"
    /\ Stack(r) = <<<<"a">>, <<"c">>>>
    /\ r.opened_starts = <<0, 1>>

\* two elements of the empty name are open at one offset
C40_WitnessEqualOffsets ==
    /\ ~scan.failed
    /\ r.opened_starts = <<0, 0>>

====
